---- MODULE Spec2Model ----
(***************************************************************************)
(* Model of wapitiCore/attack/attack.py (Flags, Mutator) and               *)
(* wapitiCore/attack/mod_buster.py (ModuleBuster).                         *)
(*                                                                         *)
(* A Python str is a sequence of tokens.  A token is one character ("a",   *)
(* ".", "/", " "), one bracketed placeholder ("[VALUE]") or one word       *)
(* without special characters ("INJECT").  Parameter values and file       *)
(* names are made of one-character tokens only, so that slicing and        *)
(* splitting act on them as on characters.                                 *)
(***************************************************************************)
EXTENDS Integers, Sequences, FiniteSets, TLC

\* ------------------------------------------------------------- strings

\* Python's None, where a str is expected
None == <<"None">>

\* tok in s
Contains(s, tok) == \E n \in 1..Len(s) : s[n] = tok

\* s.replace(tok, repl): one pass, left to right
RECURSIVE Replace(_, _, _)
Replace(s, tok, repl) ==
    IF s = <<>> THEN <<>>
    ELSE (IF Head(s) = tok THEN repl ELSE <<Head(s)>>) \o Replace(Tail(s), tok, repl)

\* index of the last tok in s, 0 when there is none
LastIndex(s, tok) ==
    IF Contains(s, tok)
    THEN CHOOSE n \in 1..Len(s) : s[n] = tok /\ \A m \in (n+1)..Len(s) : s[m] # tok
    ELSE 0

\* s.rsplit(tok, 1)[-1]
RSplitLast(s, tok) == SubSeq(s, LastIndex(s, tok) + 1, Len(s))

\* s.rsplit(tok, 1)[0]
RSplitFirst(s, tok) ==
    IF LastIndex(s, tok) = 0 THEN s ELSE SubSeq(s, 1, LastIndex(s, tok) - 1)

\* s[:-1]
AllButLast(s) == IF Len(s) <= 1 THEN <<>> ELSE SubSeq(s, 1, Len(s) - 1)

\* os.path.splitext(s)[0] of a base name: the extension starts at the last
\* dot, unless only dots precede it
splitext0(s) ==
    LET d == LastIndex(s, ".") IN
    IF d > 0 /\ (\E n \in 1..(d-1) : s[n] # ".") THEN SubSeq(s, 1, d - 1) ELSE s

\* urllib.parse.quote of one token: letters, digits and "_.-~/" are safe
quoteTok(t) ==
    CASE t = " " -> <<"%20">>
      [] t = "?" -> <<"%3F">>
      [] t = "<tab>" -> <<"%09">>
      [] t = "<lf>" -> <<"%0A">>
      [] t = "<ff>" -> <<"%0C">>
      [] t = "<nul>" -> <<"%00">>
      [] t = "[" -> <<"%5B">>
      [] t = "]" -> <<"%5D">>
      [] t = "http://wapiti3.ovh/" -> <<"http%3A//wapiti3.ovh/">>
      [] t \in {"T", "I", "M", "E", "OR"} -> <<t>>
      [] t = "admin'" -> <<"admin%27">>
      [] t = "=" -> <<"%3D">>
      [] t = "[FILE_NAME]" -> <<"%5B", "FILE_NAME", "%5D">>
      [] t = "[FILE_NOEXT]" -> <<"%5B", "FILE_NOEXT", "%5D">>
      [] t = "[PATH_ID]" -> <<"%5B", "PATH_ID", "%5D">>
      [] t = "[PARAM_AS_HEX]" -> <<"%5B", "PARAM_AS_HEX", "%5D">>
      [] t = "[EXTVALUE]" -> <<"%5B", "EXTVALUE", "%5D">>
      [] t = "[VALUE]" -> <<"%5B", "VALUE", "%5D">>
      [] t = "[DIRVALUE]" -> <<"%5B", "DIRVALUE", "%5D">>
      [] t \in {"a", "b", "c", "d", "e", "f", "v", "w", "x", "z", ".", "/", "7",
                "0", "1", "2", "3", "4", "5", "6", "8", "9",
                "INJECT", "ATTACK", "JSESSIONID", "CFID", "QUERY_STRING",
                "76", "77", "6125323062", "4a53455353494f4e4944",
                "51554552595f535452494e47"} -> <<t>>

\* urllib.parse.quote(s)
RECURSIVE quote(_)
quote(s) == IF s = <<>> THEN <<>> ELSE quoteTok(Head(s)) \o quote(Tail(s))

\* hexlify(s.encode("utf-8")).decode() of the parameter names of the model
hexlify(s) ==
    CASE s = <<"v">> -> <<"76">>
      [] s = <<"w">> -> <<"77">>
      [] s = <<"a", "%20", "b">> -> <<"6125323062">>
      [] s = <<"JSESSIONID">> -> <<"4a53455353494f4e4944">>
      [] s = <<"QUERY_STRING">> -> <<"51554552595f535452494e47">>

\* str(n) of a small non-negative int
Digit(n) == <<"0", "1", "2", "3", "4", "5", "6", "7", "8", "9">>[n + 1]
str(n) == IF n < 10 THEN <<Digit(n)>> ELSE <<Digit(n \div 10), Digit(n % 10)>>

\* methods.upper()
upperTok(t) ==
    CASE t = "g" -> "G" [] t = "p" -> "P" [] t = "f" -> "F"
      [] t \in {"G", "P", "F"} -> t
upper(s) == [n \in 1..Len(s) |-> upperTok(s[n])]

\* --------------------------------------------------------------- Flags

PayloadType == {"pattern", "time", "get", "post", "file",
                "xss_closing_tag", "xss_non_closing_tag"}

Flags(payload_type, section, method, platform, dbms) ==
    [payload_type |-> payload_type, section |-> section, method |-> method,
     platform |-> platform, dbms |-> dbms]

DefaultFlags == Flags("pattern", "", "get", "all", "all")

\* with_method built from the method alone
with_method_Defaults(flags, method) ==
    Flags(flags.payload_type, flags.section, method, "all", "all")

with_method(flags, method) ==
    Flags(flags.payload_type, flags.section, method, flags.platform, flags.dbms)

with_section(flags, section) ==
    Flags(flags.payload_type, section, flags.method, flags.platform, flags.dbms)

COMMON_ANNOYING_PARAMETERS ==
    { <<"__VIEWSTATE">>, <<"__VIEWSTATEENCRYPTED">>, <<"__VIEWSTATEGENERATOR">>,
      <<"__EVENTARGUMENT">>, <<"__EVENTTARGET">>, <<"__EVENTVALIDATION">>,
      <<"ASPSESSIONID">>, <<"ASP", ".", "NET_SESSIONID">>, <<"JSESSIONID">>,
      <<"CFID">>, <<"CFTOKEN">> }

\* the marker installed in the attacked slot of a pattern request
PAYLOAD_MARK == <<"__PAYLOAD__">>

\* ------------------------------------------------------------- Request

\* one entry of a parameter collection: [name, value]; the value of a
\* file-upload entry is <<file name, content, MIME type>>
Param(name, value) == [name |-> name, value |-> value]

\* Request(path, method=, get_params=, post_params=, file_params=, referer=,
\* link_depth=): the new request holds a copy of the collections it is given
Request(path, method, get_params, post_params, file_params, referer, link_depth) ==
    [path |-> path, method |-> method, get_params |-> get_params,
     post_params |-> post_params, file_params |-> file_params,
     referer |-> referer, link_depth |-> link_depth]

\* the structural shape of a collection: the names, each with whether its
\* slot holds the marker; no other value takes part
Shape(params, is_file) ==
    [n \in 1..Len(params) |->
        <<params[n].name,
          IF is_file THEN params[n].value[1] = PAYLOAD_MARK
                     ELSE params[n].value = PAYLOAD_MARK>>]

\* hash(request): equal for requests of the same method and parameter names
hash(request) ==
    <<request.method, Shape(request.get_params, FALSE),
      Shape(request.post_params, FALSE), Shape(request.file_params, TRUE)>>

\* ------------------------------------------------------------- Mutator

\* Mutator.__init__; parameters and skip are [kind, items], the kind being
\* the Python type of the argument ("list", "set" or "none")
Mutator(methods, payloads, qs_inject, parameters, skip) ==
    [mutate_get |-> Contains(upper(methods), "G"),
     mutate_file |-> Contains(upper(methods), "F"),
     mutate_post |-> Contains(upper(methods), "P"),
     payloads |-> payloads,
     qs_inject |-> qs_inject,
     parameters |-> IF parameters.kind = "list" THEN parameters.items ELSE {},
     skip_list |-> (IF skip.kind = "set" THEN skip.items ELSE {})
                      \cup COMMON_ANNOYING_PARAMETERS]

\* Mutator.iter_payloads: the (payload, flags) pairs one iteration gives.
\* payloads is [kind, items]: a "tuple" is one pair, a "list" a list of
\* pairs, a "generator" a generator object of which `consumed` pairs are
\* already taken, a "function" a function returning a fresh generator, a
\* "function_single" a function returning one pair
iter_payloads(payloads, consumed) ==
    CASE payloads.kind = "tuple" -> <<payloads.items[1]>>
      [] payloads.kind = "list" -> payloads.items
      [] payloads.kind = "generator" ->
            SubSeq(payloads.items, consumed + 1, Len(payloads.items))
      [] payloads.kind = "function" -> payloads.items
      [] payloads.kind = "function_single" -> <<payloads.items[1]>>
      [] payloads.kind = "none" -> <<>>

\* the placeholder steps shared by both branches of mutate(): file name,
\* file name without extension, path id, hex of the parameter name
RenderContext(payload, request, hex_name) ==
    LET p1 == Replace(payload, "[FILE_NAME]", request.file_name)
        p2 == Replace(p1, "[FILE_NOEXT]", splitext0(request.file_name))
        p3 == IF Len(request.path_id) = 1
              THEN Replace(p2, "[PATH_ID]", str(request.path_id[1]))
              ELSE p2
    IN Replace(p3, "[PARAM_AS_HEX]", hex_name)

\* whether the payload is skipped for a missing file name
NeedsFileName(payload, request) ==
    (Contains(payload, "[FILE_NAME]") \/ Contains(payload, "[FILE_NOEXT]"))
    /\ request.file_name = <<>>

\* the payload loop's body for a parameter whose saved text is `value` (the
\* value of a query or body parameter, the file name of an upload):
\* [skip, payload]
RenderParam(payload, request, param_name, value) ==
    IF NeedsFileName(payload, request) THEN [skip |-> TRUE, payload |-> payload]
    ELSE LET p4 == RenderContext(payload, request, hexlify(param_name)) IN
         IF Contains(p4, "[EXTVALUE]") /\ ~Contains(AllButLast(value), ".")
         THEN [skip |-> TRUE, payload |-> p4]
         ELSE LET p5 == Replace(p4, "[EXTVALUE]", RSplitLast(value, "."))
                  p6 == Replace(p5, "[VALUE]", value)
              IN [skip |-> FALSE,
                  payload |-> Replace(p6, "[DIRVALUE]", RSplitFirst(value, "/"))]

\* the query-string branch without its [DIRVALUE] test
RenderQueryString_KeepsDirValue(payload, request) ==
    IF Contains(payload, "[VALUE]") \/ NeedsFileName(payload, request)
    THEN [skip |-> TRUE, payload |-> payload]
    ELSE [skip |-> FALSE,
          payload |-> RenderContext(payload, request, hexlify(<<"QUERY_STRING">>))]

\* the payload loop's body of the query-string branch: [skip, payload]
RenderQueryString(payload, request) ==
    IF Contains(payload, "[VALUE]") \/ Contains(payload, "[DIRVALUE]")
       \/ NeedsFileName(payload, request)
    THEN [skip |-> TRUE, payload |-> payload]
    ELSE [skip |-> FALSE,
          payload |-> RenderContext(payload, request, hexlify(<<"QUERY_STRING">>))]

\* -------------------------------------------------------------- inputs

\* the number of mutate() calls made on the Mutator
MaxCalls == 2

Pair(payload, flags) == [payload |-> payload, flags |-> flags]

TimeFlags == Flags("time", "sql", "get", "all", "mysql")

PayloadSources ==
    [plain |-> [kind |-> "list",
                items |-> << Pair(<<"INJECT">>, DefaultFlags),
                             Pair(<<"ATTACK">>, TimeFlags) >>],
     value |-> [kind |-> "list",
                items |-> << Pair(<<"[VALUE]", "x">>, DefaultFlags),
                             Pair(<<"[DIRVALUE]">>, DefaultFlags),
                             Pair(<<"x", ".", "[EXTVALUE]">>, TimeFlags) >>],
     context |-> [kind |-> "list",
                  items |-> << Pair(<<"[FILE_NAME]">>, DefaultFlags),
                               Pair(<<"[FILE_NOEXT]", "[PATH_ID]">>, DefaultFlags),
                               Pair(<<"[PARAM_AS_HEX]">>, DefaultFlags) >>],
     mixed |-> [kind |-> "list",
                items |-> << Pair(<<"[VALUE]">>, DefaultFlags),
                             Pair(<<"INJECT">>, TimeFlags),
                             Pair(<<"[FILE_NAME]", "[EXTVALUE]">>, DefaultFlags) >>],
     named |-> [kind |-> "list",
                items |-> << Pair(<<"[FILE_NAME]">>, DefaultFlags),
                             Pair(<<"x", "[FILE_NOEXT]">>, TimeFlags) >>],
     single |-> [kind |-> "tuple", items |-> << Pair(<<"INJECT">>, DefaultFlags) >>],
     function |-> [kind |-> "function",
                   items |-> << Pair(<<"a", "b", "c">>, DefaultFlags),
                                Pair(<<"d", "e", "f">>, DefaultFlags) >>],
     function_single |-> [kind |-> "function_single",
                          items |-> << Pair(<<"w", "x">>, DefaultFlags) >>],
     generator |-> [kind |-> "generator",
                    items |-> << Pair(<<"INJECT">>, DefaultFlags),
                                 Pair(<<"ATTACK">>, DefaultFlags) >>],
     empty |-> [kind |-> "list", items |-> << >>],
     none |-> [kind |-> "none", items |-> << >>]]

NoNames == [kind |-> "none", items |-> {}]
NameList(items) == [kind |-> "list", items |-> items]
NameSet(items) == [kind |-> "set", items |-> items]

Args(methods, payloads, qs_inject, parameters, skip) ==
    [methods |-> methods, payloads |-> payloads, qs_inject |-> qs_inject,
     parameters |-> parameters, skip |-> skip]

FGP == <<"F", "G", "P">>

\* the constructor arguments the model draws from
MutatorArgs ==
    { Args(FGP, PayloadSources.plain, FALSE, NoNames, NoNames),
      Args(FGP, PayloadSources.plain, TRUE, NoNames, NoNames),
      Args(<<"G">>, PayloadSources.plain, TRUE, NoNames, NoNames),
      Args(<<"p", "f">>, PayloadSources.plain, FALSE, NoNames, NoNames),
      Args(FGP, PayloadSources.value, TRUE, NoNames, NoNames),
      Args(FGP, PayloadSources.context, TRUE, NoNames, NoNames),
      Args(FGP, PayloadSources.mixed, TRUE, NoNames, NoNames),
      Args(FGP, PayloadSources.named, FALSE, NoNames, NoNames),
      Args(FGP, PayloadSources.single, TRUE, NoNames, NoNames),
      Args(FGP, PayloadSources.function, TRUE, NoNames, NoNames),
      Args(FGP, PayloadSources.function_single, FALSE, NoNames, NoNames),
      Args(FGP, PayloadSources.generator, TRUE, NoNames, NoNames),
      Args(FGP, PayloadSources.empty, TRUE, NoNames, NoNames),
      Args(FGP, PayloadSources.none, FALSE, NoNames, NoNames),
      Args(FGP, PayloadSources.plain, TRUE, NameList({<<"v">>}), NoNames),
      Args(<<"G">>, PayloadSources.mixed, TRUE, NameList({<<"v">>}), NoNames),
      Args(FGP, PayloadSources.plain, FALSE, NameSet({<<"v">>}), NoNames),
      Args(FGP, PayloadSources.plain, FALSE,
           NameList({<<"v">>, <<"w">>, <<"JSESSIONID">>}), NameSet({<<"v">>})),
      Args(FGP, PayloadSources.plain, FALSE, NoNames, NameSet({<<"w">>})),
      Args(FGP, PayloadSources.plain, FALSE, NoNames, NameList({<<"w">>})),
      Args(FGP, PayloadSources.plain, FALSE, NoNames, NameSet({<<"a", " ", "b">>})) }

InRequest(path, method, get_params, post_params, file_params, path_id, file_name) ==
    [path |-> path, method |-> method, get_params |-> get_params,
     post_params |-> post_params, file_params |-> file_params,
     referer |-> <<"/">>, link_depth |-> 1,
     path_id |-> path_id, file_name |-> file_name]

\* the requests handed to mutate(); path_id is <<>> for None and <<n>> for
\* the int n; file_name is the base name of the path
Requests ==
    { InRequest(<<"/", "a">>, "GET",
                << Param(<<"v">>, <<"a">>), Param(<<"w">>, <<"b">>) >>, <<>>, <<>>,
                <<>>, <<"a">>),
      InRequest(<<"/", "a">>, "GET",
                << Param(<<"v">>, <<"a">>), Param(<<"w">>, <<"z">>) >>, <<>>, <<>>,
                <<>>, <<"a">>),
      InRequest(<<"/">>, "GET", <<>>, <<>>, <<>>, <<>>, <<>>),
      InRequest(<<"/", "f", ".", "x">>, "GET", <<>>, <<>>, <<>>,
                <<7>>, <<"f", ".", "x">>),
      InRequest(<<"/", "f", ".", "x">>, "GET", <<>>,
                << Param(<<"v">>, <<"b", ".", "c">>) >>, <<>>,
                <<12>>, <<"f", ".", "x">>),
      InRequest(<<"/", "f", ".", "x">>, "POST",
                << Param(<<"v">>, None) >>,
                << Param(<<"w">>, <<"d", "/", "e">>) >>,
                << Param(<<"v">>, << <<"b", ".", "c">>, <<"c">>, <<"x">> >>) >>,
                <<>>, <<"f", ".", "x">>),
      InRequest(<<"/", "a">>, "GET",
                << Param(<<"JSESSIONID">>, <<"a">>), Param(<<"a", " ", "b">>, <<"a">>),
                   Param(<<"v">>, <<>>) >>, <<>>, <<>>,
                <<7>>, <<"a">>),
      InRequest(<<"/", "a">>, "POST",
                << Param(<<"v">>, <<"a">>), Param(<<"v">>, <<"b", ".">>) >>,
                << Param(<<"w">>, None), Param(<<"v">>, <<"a">>) >>, <<>>,
                <<>>, <<"a">>),
      InRequest(<<"/", "a">>, "POST", <<>>,
                << Param(<<"w">>, <<"b">>) >>, <<>>,
                <<>>, <<"a">>),
      InRequest(<<"/">>, "GET", << Param(<<"v">>, <<"a">>) >>, <<>>, <<>>,
                <<>>, <<>>) }

\* the largest attack level the model draws
MaxLevel == 3

\* the attack options of a module: level left out, or given
AttackOptions ==
    {[tasks |-> 0]} \cup {[tasks |-> 0, level |-> l] : l \in 0..MaxLevel}

\* Attack.attack_level: self.options.get("level", 1)
attack_level(opts) == IF "level" \in DOMAIN opts THEN opts.level ELSE 1

\* Attack.must_attack_query_string
must_attack_query_string(opts) == attack_level(opts) = 2

\* Attack.get_mutator(); skipped_parameters is not among the options drawn
get_mutator(get, post, source, opts) ==
    Args((IF get THEN <<"G">> ELSE <<>>) \o (IF post THEN <<"P", "F">> ELSE <<>>),
         source, must_attack_query_string(opts), NoNames, NoNames)

NoRequest == InRequest(<<>>, "GET", <<>>, <<>>, <<>>, <<>>, <<>>)

\* --------------------------------------------------------------- state

VARIABLES
    args,           \* the arguments the Mutator was constructed with
    mutator,        \* the Mutator's fields set by __init__
    attack_hashes,  \* Mutator._attack_hashes
    consumed,       \* pairs already taken from a generator-object payload source
    request,        \* the request of the current mutate() call, as it was handed in
    get_params,     \* the three collections mutate() works on
    post_params,
    file_params,
    pc,             \* where the generator returned by mutate() stands
    slot,           \* 1: get_params, 2: post_params, 3: file_params, 4: query string
    i,              \* position in the current collection
    saved_value,
    payload_iter,   \* what is left of the current iter_payloads() iteration
    yielded,        \* every tuple yielded so far, with where it came from
    calls           \* mutate() calls made so far

mvars == <<args, mutator, attack_hashes, consumed, request, get_params, post_params,
           file_params, pc, slot, i, saved_value, payload_iter, yielded, calls>>

\* ModuleBuster
VARIABLES
    do_get,           \* the module's do_get attribute
    options,          \* attack_options: [tasks], with level when it is given
    links,            \* the paths persister.get_links() gives, in order
    payloads,         \* the candidates self.payloads gives, in order
    stop_event,       \* self._stop_event.is_set()
    finished,         \* self.finished
    known_dirs,
    known_pages,
    new_resources,
    network_errors,
    bpc,              \* where attack() stands
    caller,           \* the loop of attack() that called test_directory
    dir_index,        \* position of `for current_dir in self.known_dirs`
    path,             \* the argument of test_directory
    tasks,            \* the set `tasks`: [id, url, done, answer]
    pending_count,
    payload_iterator, \* candidates already taken from payload_iterator
    response,         \* the answer to the control probe, until the caller moves on
    probed,           \* the URLs probed by the current test_directory call
    found             \* resources the server has revealed so far

bvars == <<do_get, options, links, payloads, stop_event, finished, known_dirs,
           known_pages, new_resources, network_errors, bpc, caller, dir_index, path,
           tasks, pending_count, payload_iterator, response, probed, found>>

\* PayloadReader, Request.file_params, Flags.__eq__
VARIABLES
    payload_file,     \* the payload file handed to read_payloads
    copies,           \* whether a read of request.file_params gives a new copy
    compared,         \* the two operands of the last f == other
    outcome           \* what that comparison gave

ovars == <<payload_file, copies, compared, outcome>>

vars == <<mvars, bvars, ovars>>

\* no payload file is read
NoFile == [readable |-> FALSE, lines |-> <<>>]

\* no payload file read, no comparison made
OthersIdle ==
    /\ payload_file = NoFile
    /\ copies = FALSE
    /\ compared = <<>>
    /\ outcome = "none"

\* no control probe answered
NoResponse == [error |-> FALSE, status |-> 0]

\* a ModuleBuster on which attack() is never called
BusterIdle ==
    /\ do_get = FALSE
    /\ links = <<>>
    /\ payloads = <<>>
    /\ stop_event = FALSE
    /\ finished = FALSE
    /\ known_dirs = <<>>
    /\ known_pages = <<>>
    /\ new_resources = <<>>
    /\ network_errors = 0
    /\ bpc = "unused"
    /\ caller = "dirs"
    /\ dir_index = 1
    /\ path = <<>>
    /\ tasks = {}
    /\ pending_count = 0
    /\ payload_iterator = 0
    /\ response = NoResponse
    /\ probed = <<>>
    /\ found = 0

\* ------------------------------------------------------ Mutator.mutate

params_list == CASE slot = 1 -> get_params [] slot = 2 -> post_params
                 [] slot = 3 -> file_params

\* the three collections once the current one is `new`
Collections(new) ==
    [get_params |-> IF slot = 1 THEN new ELSE get_params,
     post_params |-> IF slot = 2 THEN new ELSE post_params,
     file_params |-> IF slot = 3 THEN new ELSE file_params]

\* params_list[n][1] = value
SetValue(params, n, value) == [params EXCEPT ![n].value = value]

Assign(new) ==
    /\ get_params' = Collections(new).get_params
    /\ post_params' = Collections(new).post_params
    /\ file_params' = Collections(new).file_params

\* the `continue` conditions at the head of the loop over the collections
SlotEnabled ==
    CASE slot = 1 -> mutator.mutate_get [] slot = 2 -> mutator.mutate_post
      [] slot = 3 -> mutator.mutate_file

\* the two `continue` conditions at the head of the loop over the parameters
Skipped(param_name) ==
    \/ mutator.skip_list # {} /\ param_name \in mutator.skip_list
    \/ mutator.parameters # {} /\ param_name \notin mutator.parameters

\* saved_value = params_list[i][1], "" when that is None
SavedValue(value) == IF value = None THEN <<>> ELSE value

\* the value installed to build the pattern request
Marked(value) == IF slot = 3 THEN <<PAYLOAD_MARK, value[2]>> ELSE PAYLOAD_MARK

\* the value installed for a rendered payload
Installed(payload, saved) ==
    IF slot = 3 THEN <<payload, saved[2], saved[3]>> ELSE payload

\* the method the yielded flags are tagged with
MethodOf(s) == CASE s = 1 -> "get" [] s = 2 -> "post" [] s = 3 -> "file"

\* the lookup left out: every pattern counts as new
NotAttacked_Always(h) == TRUE

\* hash(attack_pattern) not in self._attack_hashes
NotAttacked(h) == h \notin attack_hashes

\* the pattern is looked up but not recorded
AddHash_NotRecorded(h) == attack_hashes

\* self._attack_hashes.add(hash(attack_pattern))
AddHash(h) == attack_hashes \cup {h}

\* the branch taken without looking at the query parameters
QueryStringBranch_AnyQuery == request.method = "GET" /\ mutator.qs_inject

\* the query-string branch taken for a request of any method
QueryStringBranch_AnyMethod == get_params = <<>> /\ mutator.qs_inject

\* the condition of the query-string branch
QueryStringBranch ==
    get_params = <<>> /\ request.method = "GET" /\ mutator.qs_inject

\* one more pair taken from the payload source
Take == IF mutator.payloads.kind = "generator" THEN consumed + 1 ELSE consumed

\* a consumer calls mutator.mutate(r)
Mutate(r) ==
    /\ pc \in {"idle", "done"}
    /\ calls < MaxCalls
    /\ calls' = calls + 1
    /\ request' = r
    /\ get_params' = r.get_params
    /\ post_params' = r.post_params
    /\ file_params' = r.file_params
    /\ slot' = 1
    /\ i' = 1
    /\ pc' = "param"
    /\ UNCHANGED <<bvars, ovars, args, mutator, attack_hashes, consumed, saved_value, payload_iter, yielded>>

\* a collection is disabled or exhausted: on to the next one, or to the
\* query-string branch after the last
NextCollection ==
    /\ pc = "param"
    /\ ~SlotEnabled \/ i > Len(params_list)
    /\ IF slot < 3 THEN slot' = slot + 1 /\ pc' = pc
                   ELSE slot' = 4 /\ pc' = "qs"
    /\ i' = 1
    /\ UNCHANGED <<bvars, ovars, args, mutator, attack_hashes, consumed, request, get_params, post_params,
                   file_params, saved_value, payload_iter, yielded, calls>>

\* a parameter of the skip list, or outside the allowlist
SkipParameter ==
    /\ pc = "param"
    /\ SlotEnabled /\ i <= Len(params_list)
    /\ Skipped(quote(params_list[i].name))
    /\ i' = i + 1
    /\ UNCHANGED <<bvars, ovars, args, mutator, attack_hashes, consumed, request, get_params, post_params,
                   file_params, pc, slot, saved_value, payload_iter, yielded, calls>>

\* the value is saved, the pattern request built and looked up
Pattern ==
    /\ pc = "param"
    /\ SlotEnabled /\ i <= Len(params_list)
    /\ ~Skipped(quote(params_list[i].name))
    /\ LET new == SetValue(params_list, i, Marked(params_list[i].value))
           attack_pattern == Request(request.path, request.method,
                                     Collections(new).get_params,
                                     Collections(new).post_params,
                                     Collections(new).file_params, <<>>, 0)
       IN /\ saved_value' = SavedValue(params_list[i].value)
          /\ Assign(new)
          /\ IF NotAttacked(hash(attack_pattern))
             THEN /\ attack_hashes' = AddHash(hash(attack_pattern))
                  /\ payload_iter' = iter_payloads(mutator.payloads, consumed)
                  /\ pc' = "payload"
             ELSE /\ pc' = "restore"
                  /\ UNCHANGED <<attack_hashes, payload_iter>>
    /\ UNCHANGED <<bvars, ovars, args, mutator, consumed, request, slot, i, yielded, calls>>

\* the text the value placeholders read: the saved value, or the file name
\* of a saved upload
SavedText == IF slot = 3 THEN saved_value[1] ELSE saved_value

\* the next payload is skipped for a missing context
SkipPayload ==
    /\ pc = "payload"
    /\ payload_iter # <<>>
    /\ RenderParam(Head(payload_iter).payload, request,
                   quote(params_list[i].name), SavedText).skip
    /\ payload_iter' = Tail(payload_iter)
    /\ consumed' = Take
    /\ UNCHANGED <<bvars, ovars, args, mutator, attack_hashes, request, get_params, post_params,
                   file_params, pc, slot, i, saved_value, yielded, calls>>

\* the next payload is rendered and installed, the request built and yielded
Yield ==
    /\ pc = "payload"
    /\ payload_iter # <<>>
    /\ LET param_name == quote(params_list[i].name)
           r == RenderParam(Head(payload_iter).payload, request, param_name, SavedText)
           new == SetValue(params_list, i, Installed(r.payload, saved_value))
           evil_req == Request(request.path, request.method,
                               Collections(new).get_params,
                               Collections(new).post_params,
                               Collections(new).file_params,
                               request.referer, request.link_depth)
       IN /\ ~r.skip
          /\ Assign(new)
          /\ yielded' = Append(yielded,
                 [call |-> calls, slot |-> slot, i |-> i,
                  pattern |-> hash(Request(request.path, request.method,
                        Collections(SetValue(params_list, i, Marked(saved_value))).get_params,
                        Collections(SetValue(params_list, i, Marked(saved_value))).post_params,
                        Collections(SetValue(params_list, i, Marked(saved_value))).file_params,
                        <<>>, 0)),
                  source |-> Head(payload_iter),
                  name |-> params_list[i].name,
                  evil_req |-> evil_req, param_name |-> param_name,
                  payload |-> r.payload,
                  flags |-> with_method(Head(payload_iter).flags, MethodOf(slot))])
    /\ payload_iter' = Tail(payload_iter)
    /\ consumed' = Take
    /\ pc' = "yielded"
    /\ UNCHANGED <<bvars, ovars, args, mutator, attack_hashes, request, slot, i, saved_value, calls>>

\* the consumer asks for the next tuple
Resume ==
    /\ pc \in {"yielded", "qs_yielded"}
    /\ pc' = IF pc = "yielded" THEN "payload" ELSE "qs_payload"
    /\ UNCHANGED <<bvars, ovars, args, mutator, attack_hashes, consumed, request, get_params, post_params,
                   file_params, slot, i, saved_value, payload_iter, yielded, calls>>

\* the consumer drops the generator at a yield: the GeneratorExit raised
\* there ends mutate(), which has no finally clause; this consumer makes no
\* further call
Abandon ==
    /\ pc \in {"yielded", "qs_yielded"}
    /\ pc' = "abandoned"
    /\ UNCHANGED <<bvars, ovars, args, mutator, attack_hashes, consumed, request, get_params, post_params,
                   file_params, slot, i, saved_value, payload_iter, yielded, calls>>

\* the payload source is exhausted for this parameter
PayloadsDone ==
    /\ pc = "payload"
    /\ payload_iter = <<>>
    /\ pc' = "restore"
    /\ UNCHANGED <<bvars, ovars, args, mutator, attack_hashes, consumed, request, get_params, post_params,
                   file_params, slot, i, saved_value, payload_iter, yielded, calls>>

\* params_list[i][1] = saved_value
Restore ==
    /\ pc = "restore"
    /\ Assign(SetValue(params_list, i, saved_value))
    /\ i' = i + 1
    /\ pc' = "param"
    /\ UNCHANGED <<bvars, ovars, args, mutator, attack_hashes, consumed, request, slot, saved_value,
                   payload_iter, yielded, calls>>

\* the query-string pattern: Request(f"{request.path}?__PAYLOAD__", ...)
QueryStringPattern ==
    Request(request.path \o <<"?">> \o PAYLOAD_MARK, request.method,
            <<>>, <<>>, <<>>, request.referer, request.link_depth)

\* the query-string branch is entered, or mutate() ends
QueryString ==
    /\ pc = "qs"
    /\ IF QueryStringBranch /\ NotAttacked(hash(QueryStringPattern))
       THEN /\ attack_hashes' = AddHash(hash(QueryStringPattern))
            /\ payload_iter' = iter_payloads(mutator.payloads, consumed)
            /\ pc' = "qs_payload"
       ELSE /\ pc' = "done"
            /\ UNCHANGED <<attack_hashes, payload_iter>>
    /\ UNCHANGED <<bvars, ovars, args, mutator, consumed, request, get_params, post_params, file_params,
                   slot, i, saved_value, yielded, calls>>

QueryStringSkipPayload ==
    /\ pc = "qs_payload"
    /\ payload_iter # <<>>
    /\ RenderQueryString(Head(payload_iter).payload, request).skip
    /\ payload_iter' = Tail(payload_iter)
    /\ consumed' = Take
    /\ UNCHANGED <<bvars, ovars, args, mutator, attack_hashes, request, get_params, post_params,
                   file_params, pc, slot, i, saved_value, yielded, calls>>

QueryStringYield ==
    /\ pc = "qs_payload"
    /\ payload_iter # <<>>
    /\ LET r == RenderQueryString(Head(payload_iter).payload, request)
           evil_req == Request(request.path \o <<"?">> \o quote(r.payload),
                               request.method, <<>>, <<>>, <<>>,
                               request.referer, request.link_depth)
       IN /\ ~r.skip
          /\ yielded' = Append(yielded,
                 [call |-> calls, slot |-> slot, i |-> 0,
                  pattern |-> hash(QueryStringPattern),
                  source |-> Head(payload_iter),
                  name |-> <<"QUERY_STRING">>,
                  evil_req |-> evil_req, param_name |-> <<"QUERY_STRING">>,
                  payload |-> r.payload,
                  flags |-> with_method(Head(payload_iter).flags, "get")])
    /\ payload_iter' = Tail(payload_iter)
    /\ consumed' = Take
    /\ pc' = "qs_yielded"
    /\ UNCHANGED <<bvars, ovars, args, mutator, attack_hashes, request, get_params, post_params,
                   file_params, slot, i, saved_value, calls>>

QueryStringDone ==
    /\ pc = "qs_payload"
    /\ payload_iter = <<>>
    /\ pc' = "done"
    /\ UNCHANGED <<bvars, ovars, args, mutator, attack_hashes, consumed, request, get_params, post_params,
                   file_params, slot, i, saved_value, payload_iter, yielded, calls>>

Init ==
    /\ \/ /\ options = [tasks |-> 0]
          /\ args \in MutatorArgs
       \/ /\ options \in AttackOptions
          /\ args = get_mutator(TRUE, TRUE, PayloadSources.plain, options)
    /\ mutator = Mutator(args.methods, args.payloads, args.qs_inject,
                         args.parameters, args.skip)
    /\ attack_hashes = {}
    /\ consumed = 0
    /\ request = NoRequest
    /\ get_params = <<>>
    /\ post_params = <<>>
    /\ file_params = <<>>
    /\ pc = "idle"
    /\ slot = 1
    /\ i = 1
    /\ saved_value = <<>>
    /\ payload_iter = <<>>
    /\ yielded = <<>>
    /\ calls = 0
    /\ BusterIdle
    /\ OthersIdle

Next ==
    \/ \E r \in Requests : Mutate(r)
    \/ NextCollection
    \/ SkipParameter
    \/ Pattern
    \/ SkipPayload
    \/ Yield
    \/ Resume
    \/ Abandon
    \/ PayloadsDone
    \/ Restore
    \/ QueryString
    \/ QueryStringSkipPayload
    \/ QueryStringYield
    \/ QueryStringDone

Spec == Init /\ [][Next]_vars

\* ------------------------------------------------- claims on the Mutator

Yielded == {yielded[n] : n \in 1..Len(yielded)}

\* the tuples yielded by the current mutate() call, in order
RECURSIVE OfCall(_, _)
OfCall(seq, c) ==
    IF seq = <<>> THEN <<>>
    ELSE (IF Head(seq).call = c THEN <<Head(seq)>> ELSE <<>>) \o OfCall(Tail(seq), c)

Placeholders == {"[FILE_NAME]", "[FILE_NOEXT]", "[PATH_ID]", "[PARAM_AS_HEX]",
                 "[EXTVALUE]", "[VALUE]", "[DIRVALUE]"}

\* C1 (as claimed): once the sequence returned by mutate() is consumed to
\* its end, every entry of the three collections equals its value from
\* before the call, a None value included.
C1_ParametersRestored ==
    pc = "done" =>
        /\ get_params = request.get_params
        /\ post_params = request.post_params
        /\ file_params = request.file_params

\* C2: candidates that come from structurally equivalent pattern requests
\* come from one parameter position of one mutate() call: none is yielded
\* for a later position or a later call, the query-string pattern included.
C2_OnePositionPerPattern ==
    \A y1, y2 \in Yielded :
        y1.pattern = y2.pattern =>
            y1.call = y2.call /\ y1.slot = y2.slot /\ y1.i = y2.i

\* C2 happens: a later call reaches a parameter whose pattern an earlier
\* call yielded candidates for, and goes to restore it without a payload
C2_Witness ==
    /\ pc = "restore"
    /\ calls = 2
    /\ (IF slot = 3 THEN params_list[i].value[1] ELSE params_list[i].value) = PAYLOAD_MARK
    /\ \E y \in Yielded :
          /\ y.call = 1
          /\ y.pattern = hash(Request(request.path, request.method, get_params,
                                      post_params, file_params, <<>>, 0))

\* the positions of a request's parameters, in the order of the claim:
\* query, body, file-upload, each by position
Positions(r) ==
    [n \in 1..Len(r.get_params) |-> <<1, n>>]
    \o [n \in 1..Len(r.post_params) |-> <<2, n>>]
    \o [n \in 1..Len(r.file_params) |-> <<3, n>>]

\* one <<slot, position, payload>> per (parameter, payload) pair
PerParameter(r, items) ==
    [n \in 1..(Len(Positions(r)) * Len(items)) |->
        <<Positions(r)[((n - 1) \div Len(items)) + 1][1],
          Positions(r)[((n - 1) \div Len(items)) + 1][2],
          items[((n - 1) % Len(items)) + 1].payload>>]

\* one <<4, 0, payload>> per payload
PerQueryString(items) == [n \in 1..Len(items) |-> <<4, 0, items[n].payload>>]

\* what the current call yielded, as <<slot, position, payload>>
YieldedNow ==
    LET mine == OfCall(yielded, calls)
    IN [n \in 1..Len(mine) |-> <<mine[n].slot, mine[n].i, mine[n].payload>>]

\* the pattern request of position pos of request r
PatternOf(r, pos) ==
    LET mark(params, s) ==
            [n \in 1..Len(params) |->
                IF pos = <<s, n>>
                THEN Param(params[n].name,
                           IF s = 3 THEN <<PAYLOAD_MARK, params[n].value[2]>>
                                    ELSE PAYLOAD_MARK)
                ELSE params[n]]
    IN Request(r.path, r.method, mark(r.get_params, 1), mark(r.post_params, 2),
               mark(r.file_params, 3), <<>>, 0)

NameAt(r, pos) ==
    (CASE pos[1] = 1 -> r.get_params [] pos[1] = 2 -> r.post_params
       [] pos[1] = 3 -> r.file_params)[pos[2]].name

\* the case of C3: a fresh Mutator, all three slots, no allowlist, no
\* blocklisted name, a list of placeholder-free payloads, distinct patterns,
\* the returned sequence consumed to its end
C3_Case ==
    /\ pc = "done"
    /\ calls = 1
    /\ mutator.mutate_get /\ mutator.mutate_post /\ mutator.mutate_file
    /\ args.parameters.kind = "none"
    /\ args.payloads.kind = "list"
    /\ \A n \in 1..Len(args.payloads.items) :
          \A t \in Placeholders : ~Contains(args.payloads.items[n].payload, t)
    /\ \A n \in 1..Len(Positions(request)) :
          /\ NameAt(request, Positions(request)[n]) \notin mutator.skip_list
          /\ quote(NameAt(request, Positions(request)[n])) \notin mutator.skip_list
          /\ \A m \in 1..Len(Positions(request)) :
                m # n => hash(PatternOf(request, Positions(request)[m]))
                            # hash(PatternOf(request, Positions(request)[n]))

\* C3 (as claimed): exactly one candidate per (parameter, payload) pair,
\* parameters x payloads candidates, by slot, position and payload order.
C3_OnePerParameterAndPayload ==
    C3_Case => YieldedNow = PerParameter(request, args.payloads.items)

\* C3 (amended): the candidates of the parameters are followed by one
\* QUERY_STRING candidate per payload when query-string injection is
\* enabled and the request is a GET request without query parameters.
C3_OnePerParameterAndPayloadThenQueryString ==
    C3_Case =>
        YieldedNow =
            PerParameter(request, args.payloads.items)
            \o (IF args.qs_inject /\ request.method = "GET" /\ request.get_params = <<>>
                THEN PerQueryString(args.payloads.items) ELSE <<>>)

\* C3 happens: body parameters and the query string were attacked
C3_Witness ==
    /\ C3_Case
    /\ \E y \in Yielded : y.slot = 2
    /\ \E y \in Yielded : y.slot = 4
    /\ Len(yielded) >= 4

\* the collections of the request with the value at position pos replaced
WithValue(r, pos, value) ==
    LET put(params, s) ==
            [n \in 1..Len(params) |->
                IF pos = <<s, n>> THEN Param(params[n].name, value) ELSE params[n]]
    IN [get_params |-> put(r.get_params, 1), post_params |-> put(r.post_params, 2),
        file_params |-> put(r.file_params, 3)]

ValueAt(r, pos) ==
    (CASE pos[1] = 1 -> r.get_params [] pos[1] = 2 -> r.post_params
       [] pos[1] = 3 -> r.file_params)[pos[2]].value

\* C4 (as claimed): a candidate of a parameter slot equals the input
\* request but for the attacked parameter, which holds the rendered payload
\* (the file name only, for an upload); path, method, referer and link depth
\* are the input's.
C4_OnlyTheAttackedParameterDiffers ==
    \A y \in Yielded :
        (y.call = calls /\ y.slot \in 1..3) =>
            LET pos == <<y.slot, y.i>>
                old == ValueAt(request, pos)
                new == IF y.slot = 3 THEN <<y.payload, old[2], old[3]>> ELSE y.payload
            IN /\ y.evil_req.get_params = WithValue(request, pos, new).get_params
               /\ y.evil_req.post_params = WithValue(request, pos, new).post_params
               /\ y.evil_req.file_params = WithValue(request, pos, new).file_params
               /\ y.evil_req.path = request.path
               /\ y.evil_req.method = request.method
               /\ y.evil_req.referer = request.referer
               /\ y.evil_req.link_depth = request.link_depth

\* C5 (as claimed): no rendered payload still holds a placeholder of the
\* file name, the path id or the original value (no name, value or file
\* name of the model's requests holds bracketed text).
C5_NoPlaceholderLeft ==
    \A y \in Yielded :
        \A t \in Placeholders \ {"[PARAM_AS_HEX]"} : ~Contains(y.payload, t)

\* the payloads the query-string branch is claimed to keep
C6_Kept(item) ==
    /\ ~Contains(item.payload, "[VALUE]")
    /\ ~Contains(item.payload, "[DIRVALUE]")
    /\ (Contains(item.payload, "[FILE_NAME]") \/ Contains(item.payload, "[FILE_NOEXT]"))
          => request.file_name # <<>>

\* the case of C6: a fresh Mutator with query-string injection, a GET
\* request without any parameter, the returned sequence consumed to its end
C6_Case ==
    /\ pc = "done"
    /\ calls = 1
    /\ args.qs_inject
    /\ request.method = "GET"
    /\ request.get_params = <<>> /\ request.post_params = <<>>
    /\ request.file_params = <<>>

\* C6: exactly one candidate, named QUERY_STRING and tagged get, per payload
\* that references neither [VALUE] nor [DIRVALUE] and has the file name it
\* needs; none for the other payloads.
C6_QueryStringCandidates ==
    C6_Case =>
        /\ [n \in 1..Len(yielded) |-> yielded[n].source]
              = SelectSeq(iter_payloads(args.payloads, 0), C6_Kept)
        /\ \A y \in Yielded :
              /\ y.param_name = <<"QUERY_STRING">>
              /\ y.flags.method = "get"

\* C6 happens: some payloads gave a candidate and some gave none
C6_Witness ==
    /\ C6_Case
    /\ yielded # <<>>
    /\ Len(yielded) < Len(iter_payloads(args.payloads, 0))

\* C7 (as claimed, its first half): with a non-empty allowlist, also with
\* query-string injection enabled, every candidate's parameter name is in
\* the allowlist.
C7_OnlyAllowedParameters ==
    mutator.parameters # {} =>
        \A y \in Yielded : y.param_name \in mutator.parameters

\* C8 (as claimed): no candidate attacks a parameter whose name is in the
\* fixed list or in the configured skip collection.
C8_NoSkippedParameter ==
    \A y \in Yielded :
        y.slot \in 1..3 =>
            y.name \notin (COMMON_ANNOYING_PARAMETERS \cup args.skip.items)

\* -------------------------------------------------------- ModuleBuster

\* the largest options["tasks"] the model draws
MaxTasks == 2

\* how many resources the server reveals in one run
MaxResources == 2

\* how many requests fail with a transport error in one run
MaxErrors == 1

\* the lists persister.get_links() gives
LinkLists ==
    { << <<"/">>, <<"/", "a">>, <<"/">> >>,
      << <<"/", "a", "/">>, <<"/">>, <<"/", "b">>, <<"/", "b">> >> }

\* the candidate lists read from the payloads file
CandidateLists ==
    { << <<"a">>, <<"b">> >>,
      << <<"a">>, <<"a">>, <<"b">> >> }

\* s.endswith("/")
endswith_slash(s) == s # <<>> /\ s[Len(s)] = "/"

\* x in lst
In(x, lst) == \E n \in 1..Len(lst) : lst[n] = x

\* a transport error (RequestError) in place of a response
TransportError ==
    [error |-> TRUE, status |-> 0, redirection_url |-> <<>>,
     is_directory_redirection |-> FALSE]

Response(status, redirection_url, is_directory_redirection) ==
    [error |-> FALSE, status |-> status, redirection_url |-> redirection_url,
     is_directory_redirection |-> is_directory_redirection]

\* a probe not answered yet
NoAnswer == Response(0, <<>>, FALSE)

\* what the crawler may give for the control probe
ControlResponses ==
    {Response(st, <<>>, FALSE) : st \in {200, 403, 404, 429}}
    \cup (IF network_errors < MaxErrors THEN {TransportError} ELSE {})

\* what the crawler may give for a probe of url
ProbeResponses(url) ==
    {Response(st, <<>>, FALSE) : st \in {403, 404, 429}}
    \cup (IF network_errors < MaxErrors THEN {TransportError} ELSE {})
    \cup (IF found < MaxResources
          THEN {Response(200, <<>>, FALSE),
                Response(301, url \o <<"/">>, TRUE),
                Response(302, <<"/", "x">>, FALSE)}
          ELSE {})

\* the control probe tested against the list check_path uses
ControlAccepted_AlsoThrottled(answer) == answer.status \in {403, 404, 429}

\* the test of the control probe's answer: does the server tell a missing page
ControlAccepted(answer) == answer.status \in {403, 404}

\* check_path with its failure counted again by the reaping loop
check_path_CountedAgain(url, answer) ==
    IF answer.error
    THEN [append |-> <<>>, errors |-> 2, result |-> FALSE]
    ELSE IF answer.redirection_url # <<>>
    THEN [append |-> IF answer.is_directory_redirection
                     THEN <<answer.redirection_url>> ELSE <<url>>,
          errors |-> 0, result |-> TRUE]
    ELSE IF answer.status \notin {403, 404, 429}
    THEN [append |-> <<url>>, errors |-> 0, result |-> TRUE]
    ELSE [append |-> <<>>, errors |-> 0, result |-> FALSE]

\* check_path appending the target of every redirect
check_path_RedirectTarget(url, answer) ==
    IF answer.error
    THEN [append |-> <<>>, errors |-> 1, result |-> FALSE]
    ELSE IF answer.redirection_url # <<>>
    THEN [append |-> <<answer.redirection_url>>, errors |-> 0, result |-> TRUE]
    ELSE IF answer.status \notin {403, 404, 429}
    THEN [append |-> <<url>>, errors |-> 0, result |-> TRUE]
    ELSE [append |-> <<>>, errors |-> 0, result |-> FALSE]

\* check_path(url) once the crawler has answered: what is appended to
\* new_resources, what is added to network_errors, what is returned
check_path(url, answer) ==
    IF answer.error
    THEN [append |-> <<>>, errors |-> 1, result |-> FALSE]
    ELSE IF answer.redirection_url # <<>>
    THEN [append |-> IF answer.is_directory_redirection
                     THEN <<answer.redirection_url>> ELSE <<url>>,
          errors |-> 0, result |-> TRUE]
    ELSE IF answer.status \notin {403, 404, 429}
    THEN [append |-> <<url>>, errors |-> 0, result |-> TRUE]
    ELSE [append |-> <<>>, errors |-> 0, result |-> FALSE]

\* the seeding loop of attack() over the links: [known_dirs, known_pages]
RECURSIVE Seed(_, _, _)
Seed(rest, dirs, pages) ==
    IF rest = <<>> THEN [known_dirs |-> dirs, known_pages |-> pages]
    ELSE IF endswith_slash(Head(rest))
    THEN Seed(Tail(rest), IF In(Head(rest), dirs) THEN dirs ELSE Append(dirs, Head(rest)),
              pages)
    ELSE Seed(Tail(rest), dirs,
              IF In(Head(rest), pages) THEN pages ELSE Append(pages, Head(rest)))

\* the admission test at the head of the probing loop without the stop signal
MayAdmit_IgnoringStop == pending_count < options.tasks

\* the admission test at the head of the probing loop, with <= for <
MayAdmit_OneMore == pending_count <= options.tasks /\ ~stop_event

\* the admission test at the head of the probing loop
MayAdmit == pending_count < options.tasks /\ ~stop_event

\* the test of a candidate's URL against what is known already
Unknown(url) ==
    ~In(url, known_dirs) /\ ~In(url, known_pages) /\ ~In(url, new_resources)

\* the gate answering true whatever the module has done
must_attack_Always(r) == TRUE

\* Attack.must_attack(request)
must_attack(r) == ~finished

\* the stop signal is set from outside
SetStop ==
    /\ bpc \notin {"unused", "returned"}
    /\ ~stop_event
    /\ stop_event' = TRUE
    /\ UNCHANGED <<mvars, ovars, do_get, options, links, payloads, finished, known_dirs,
                   known_pages, new_resources, network_errors, bpc, caller, dir_index,
                   path, tasks, pending_count, payload_iterator, response, probed, found>>

\* attack(request) up to the end of the seeding loop
Attack ==
    /\ bpc = "idle"
    /\ finished' = TRUE
    /\ IF ~do_get
       THEN /\ bpc' = "returned"
            /\ UNCHANGED <<known_dirs, known_pages>>
       ELSE /\ known_dirs' = Seed(links, known_dirs, known_pages).known_dirs
            /\ known_pages' = Seed(links, known_dirs, known_pages).known_pages
            /\ bpc' = "dirs"
    /\ UNCHANGED <<mvars, ovars, do_get, options, links, payloads, stop_event, new_resources,
                   network_errors, caller, dir_index, path, tasks, pending_count,
                   payload_iterator, response, probed, found>>

\* one turn of `for current_dir in self.known_dirs`: test_directory is
\* called and sends its control probe, or the loop ends
KnownDirs ==
    /\ bpc = "dirs"
    /\ response' = NoResponse
    /\ IF dir_index <= Len(known_dirs) /\ ~stop_event
       THEN /\ path' = known_dirs[dir_index]
            /\ dir_index' = dir_index + 1
            /\ caller' = "dirs"
            /\ probed' = <<>>
            /\ bpc' = "control"
       ELSE /\ bpc' = "discovered"
            /\ UNCHANGED <<path, dir_index, caller, probed>>
    /\ UNCHANGED <<mvars, ovars, do_get, options, links, payloads, stop_event, finished,
                   known_dirs, known_pages, new_resources, network_errors, tasks,
                   pending_count, payload_iterator, found>>

\* the loop over the discovered resources taking the newest one first
Discovered_NewestFirst ==
    /\ bpc = "discovered"
    /\ response' = NoResponse
    /\ IF new_resources # <<>> /\ ~stop_event
       THEN LET last == new_resources[Len(new_resources)]
            IN /\ new_resources' = SubSeq(new_resources, 1, Len(new_resources) - 1)
               /\ IF endswith_slash(last)
                  THEN /\ known_dirs' = Append(known_dirs, last)
                       /\ path' = last
                       /\ caller' = "discovered"
                       /\ probed' = <<>>
                       /\ bpc' = "control"
                       /\ UNCHANGED known_pages
                  ELSE /\ known_pages' = Append(known_pages, last)
                       /\ UNCHANGED <<known_dirs, path, caller, probed, bpc>>
       ELSE /\ bpc' = "returned"
            /\ UNCHANGED <<new_resources, known_dirs, known_pages, path, caller, probed>>
    /\ UNCHANGED <<mvars, ovars, do_get, options, links, payloads, stop_event, finished,
                   network_errors, dir_index, tasks, pending_count, payload_iterator, found>>

\* one turn of `while self.new_resources and not stop`: the first resource
\* is taken and filed, a directory is explored; or attack() returns
Discovered ==
    /\ bpc = "discovered"
    /\ response' = NoResponse
    /\ IF new_resources # <<>> /\ ~stop_event
       THEN /\ new_resources' = Tail(new_resources)
            /\ IF endswith_slash(Head(new_resources))
               THEN /\ known_dirs' = Append(known_dirs, Head(new_resources))
                    /\ path' = Head(new_resources)
                    /\ caller' = "discovered"
                    /\ probed' = <<>>
                    /\ bpc' = "control"
                    /\ UNCHANGED known_pages
               ELSE /\ known_pages' = Append(known_pages, Head(new_resources))
                    /\ UNCHANGED <<known_dirs, path, caller, probed, bpc>>
       ELSE /\ bpc' = "returned"
            /\ UNCHANGED <<new_resources, known_dirs, known_pages, path, caller, probed>>
    /\ UNCHANGED <<mvars, ovars, do_get, options, links, payloads, stop_event, finished,
                   network_errors, dir_index, tasks, pending_count, payload_iterator, found>>

\* test_directory receives the answer to its control probe
Control(answer) ==
    /\ bpc = "control"
    /\ response' = [error |-> answer.error, status |-> answer.status]
    /\ IF answer.error
       THEN /\ network_errors' = network_errors + 1
            /\ bpc' = caller
            /\ UNCHANGED <<tasks, pending_count, payload_iterator>>
       ELSE /\ UNCHANGED network_errors
            /\ IF ControlAccepted(answer)
               THEN /\ tasks' = {}
                    /\ pending_count' = 0
                    /\ payload_iterator' = 0
                    /\ bpc' = "admit"
               ELSE /\ bpc' = caller
                    /\ UNCHANGED <<tasks, pending_count, payload_iterator>>
    /\ UNCHANGED <<mvars, ovars, do_get, options, links, payloads, stop_event, finished,
                   known_dirs, known_pages, new_resources, caller, dir_index, path,
                   probed, found>>

\* the head of the probing loop leaving when the candidates are used up
Admit_UntilNoCandidate ==
    /\ bpc = "admit"
    /\ response' = NoResponse
    /\ LET take == MayAdmit /\ payload_iterator < Len(payloads)
           url == path \o payloads[payload_iterator + 1]
           create == take /\ Unknown(url)
           now == IF create
                  THEN tasks \cup {[id |-> payload_iterator + 1, url |-> url,
                                    done |-> FALSE, answer |-> NoAnswer]}
                  ELSE tasks
       IN /\ payload_iterator' = IF take THEN payload_iterator + 1 ELSE payload_iterator
          /\ tasks' = now
          /\ probed' = IF create THEN Append(probed, url) ELSE probed
          /\ bpc' = IF now = {} \/ payload_iterator' = Len(payloads)
                    THEN caller ELSE "wait"
    /\ UNCHANGED <<mvars, ovars, do_get, options, links, payloads, stop_event, finished,
                   known_dirs, known_pages, new_resources, network_errors, caller,
                   dir_index, path, pending_count, found>>

\* the head of the probing loop: at most one candidate is taken and, if
\* its URL is unknown, a task is created for it; the loop ends without tasks
Admit ==
    /\ bpc = "admit"
    /\ response' = NoResponse
    /\ LET take == MayAdmit /\ payload_iterator < Len(payloads)
           url == path \o payloads[payload_iterator + 1]
           create == take /\ Unknown(url)
           now == IF create
                  THEN tasks \cup {[id |-> payload_iterator + 1, url |-> url,
                                    done |-> FALSE, answer |-> NoAnswer]}
                  ELSE tasks
       IN /\ payload_iterator' = IF take THEN payload_iterator + 1 ELSE payload_iterator
          /\ tasks' = now
          /\ probed' = IF create THEN Append(probed, url) ELSE probed
          /\ bpc' = IF now = {} THEN caller ELSE "wait"
    /\ UNCHANGED <<mvars, ovars, do_get, options, links, payloads, stop_event, finished,
                   known_dirs, known_pages, new_resources, network_errors, caller,
                   dir_index, path, pending_count, found>>

\* while test_directory waits, the crawler answers a probe and its
\* check_path task runs to its end
Complete(t, answer) ==
    /\ bpc = "wait"
    /\ t \in tasks /\ ~t.done
    /\ new_resources' = new_resources \o check_path(t.url, answer).append
    /\ network_errors' = network_errors + check_path(t.url, answer).errors
    /\ found' = found + Len(check_path(t.url, answer).append)
    /\ tasks' = (tasks \ {t}) \cup {[t EXCEPT !.done = TRUE, !.answer = answer]}
    /\ UNCHANGED <<mvars, ovars, do_get, options, links, payloads, stop_event, finished,
                   known_dirs, known_pages, bpc, caller, dir_index, path,
                   pending_count, payload_iterator, response, probed>>

\* the reap cycle leaving the pending tasks in flight when the stop signal
\* is set
Wait_KeepsPending ==
    /\ bpc = "wait"
    /\ pending_count' = Cardinality({t \in tasks : ~t.done})
    /\ tasks' = {t \in tasks : ~t.done}
    /\ bpc' = "admit"
    /\ UNCHANGED <<mvars, ovars, do_get, options, links, payloads, stop_event, finished,
                   known_dirs, known_pages, new_resources, network_errors, caller,
                   dir_index, path, payload_iterator, response, probed, found>>

\* asyncio.wait returns (a task is done, or the timeout): the done tasks
\* are reaped and, if the stop signal is set, the pending ones are cancelled
Wait ==
    /\ bpc = "wait"
    /\ LET done_tasks == {t \in tasks : t.done}
           pending_tasks == tasks \ done_tasks
       IN /\ pending_count' = Cardinality(pending_tasks)
          /\ tasks' = IF stop_event THEN {} ELSE pending_tasks
    /\ bpc' = "admit"
    /\ UNCHANGED <<mvars, ovars, do_get, options, links, payloads, stop_event, finished,
                   known_dirs, known_pages, new_resources, network_errors, caller,
                   dir_index, path, payload_iterator, response, probed, found>>

\* a Mutator on which mutate() is never called
MutatorIdle ==
    /\ args = Args(FGP, PayloadSources.none, FALSE, NoNames, NoNames)
    /\ mutator = Mutator(args.methods, args.payloads, args.qs_inject,
                         args.parameters, args.skip)
    /\ attack_hashes = {}
    /\ consumed = 0
    /\ request = NoRequest
    /\ get_params = <<>>
    /\ post_params = <<>>
    /\ file_params = <<>>
    /\ pc = "unused"
    /\ slot = 1
    /\ i = 1
    /\ saved_value = <<>>
    /\ payload_iter = <<>>
    /\ yielded = <<>>
    /\ calls = 0

BusterInit ==
    /\ MutatorIdle
    /\ OthersIdle
    /\ do_get \in BOOLEAN
    /\ options \in [tasks : 0..MaxTasks]
    /\ links \in LinkLists
    /\ payloads \in CandidateLists
    /\ stop_event = FALSE
    /\ finished = FALSE
    /\ known_dirs = <<>>
    /\ known_pages = <<>>
    /\ new_resources = <<>>
    /\ network_errors = 0
    /\ bpc = "idle"
    /\ caller = "dirs"
    /\ dir_index = 1
    /\ path = <<>>
    /\ tasks = {}
    /\ pending_count = 0
    /\ payload_iterator = 0
    /\ response = NoResponse
    /\ probed = <<>>
    /\ found = 0

BusterNext ==
    \/ SetStop
    \/ Attack
    \/ KnownDirs
    \/ Discovered
    \/ \E answer \in ControlResponses : Control(answer)
    \/ Admit
    \/ \E t \in tasks : \E answer \in ProbeResponses(t.url) : Complete(t, answer)
    \/ Wait

BusterSpec == BusterInit /\ [][BusterNext]_vars

\* the run of attack() on the event loop: the coroutine's own steps are
\* taken when they can be (asyncio.wait returns after its timeout of 0.01 s
\* at the latest), and the control probe, which is awaited without a
\* timeout of the module's and cannot be cancelled by the stop signal, is
\* answered or fails.  Nothing is assumed about the candidate probes, the
\* stop signal or the call of attack().
BusterFairness ==
    /\ WF_vars(KnownDirs)
    /\ WF_vars(Discovered)
    /\ WF_vars(\E answer \in ControlResponses : Control(answer))
    /\ WF_vars(Admit)
    /\ WF_vars(Wait)

\* the runs checked for termination: no repeated candidate
BusterLiveInit ==
    /\ BusterInit
    /\ payloads = << <<"a">>, <<"b">> >>

BusterLiveSpec == BusterLiveInit /\ [][BusterNext]_vars /\ BusterFairness

\* --------------------------------------------- claims on ModuleBuster

\* the control probe's answer does not tell a missing page
C9_NoSignal(answer) == answer.error \/ answer.status \notin {403, 404}

\* C9: when the control probe is answered by a status other than 403 and
\* 404, or fails, test_directory returns to the loop that called it with
\* no candidate probed and known_dirs, known_pages and new_resources as
\* they were, and attack() goes on from there.
C9_NoProbeWithoutNotFoundSignal ==
    /\ []((bpc \in {"dirs", "discovered"} /\ response # NoResponse)
            => probed = <<>> /\ tasks = {})
    /\ [][(bpc = "control" /\ bpc' # "control" /\ C9_NoSignal(response'))
            => /\ bpc' = caller
               /\ probed' = <<>>
               /\ tasks' = {}
               /\ known_dirs' = known_dirs
               /\ known_pages' = known_pages
               /\ new_resources' = new_resources]_vars

\* C9 happens: a directory was given up on a 200 answer and the loop over
\* the known directories has another one to take
C9_Witness ==
    /\ bpc = "dirs"
    /\ response.status = 200
    /\ ~stop_event
    /\ dir_index <= Len(known_dirs)

\* C10: the tasks admitted and neither reaped nor cancelled never outnumber
\* options["tasks"].
C10_WithinBudget == Cardinality(tasks) <= options.tasks

\* C10 happens: the budget is used up by pending probes while candidates
\* are left
C10_Witness ==
    /\ bpc = "admit"
    /\ options.tasks = 2
    /\ Cardinality({t \in tasks : ~t.done}) = 2
    /\ pending_count = 2
    /\ ~stop_event
    /\ payload_iterator < Len(payloads)

\* the ids of the tasks in flight
TaskIds(ts) == {t.id : t \in ts}

\* C11: once the stop signal is set no task is created and no URL is
\* probed, and the reap cycle that finds the signal set leaves no task in
\* `tasks`, whether it had completed or not.
C11_StopCancels ==
    [][stop_event
         => /\ TaskIds(tasks') \subseteq TaskIds(tasks)
            /\ probed' = probed
            /\ (bpc = "wait" /\ bpc' = "admit" => tasks' = {})]_vars

\* C11 happens: the signal is set and the reap cycle has just thrown away
\* a probe that had not completed
C11_Witness ==
    /\ stop_event
    /\ bpc = "admit"
    /\ pending_count > 0
    /\ tasks = {}

\* C12: when test_directory returns from its probing loop with a budget of
\* at least 1 and the stop signal not set, every candidate has been taken
\* from the candidate sequence, so that each one whose URL was unknown when
\* it was taken has been probed.
C12_EveryCandidateProbed ==
    [][(bpc = "admit" /\ bpc' = caller /\ options.tasks >= 1 /\ ~stop_event')
         => payload_iterator' = Len(payloads)]_vars

\* the tasks whose probe is answered in this step
Answered == {t \in tasks' : t.done /\ \E u \in tasks : u.id = t.id /\ ~u.done}

\* a path that looks like a directory
DirShaped(p) == p # <<>> /\ p[Len(p)] = "/"

\* what the classification of a response adds to new_resources
C13_Discovery(url, answer) ==
    IF answer.redirection_url # <<>>
    THEN IF answer.is_directory_redirection
         THEN <<answer.redirection_url>> ELSE <<url>>
    ELSE IF answer.status \in {403, 404, 429} THEN <<>> ELSE <<url>>

\* C13: a response to a candidate probe appends to new_resources the
\* redirect target for a directory-style redirect, the probed path for
\* another redirect or a status outside {403, 404, 429}, and nothing for
\* 403, 404 and 429; a path ending in "/" taken from new_resources goes to
\* known_dirs, and no such path is ever in known_pages.
C13_Classification ==
    /\ [](\A n \in 1..Len(known_pages) : ~DirShaped(known_pages[n]))
    /\ [][/\ \A t \in Answered :
               ~t.answer.error
               => new_resources' = new_resources \o C13_Discovery(t.url, t.answer)
          /\ (bpc = "discovered" /\ new_resources' # new_resources
                  /\ DirShaped(Head(new_resources)))
               => /\ known_dirs' = Append(known_dirs, Head(new_resources))
                  /\ known_pages' = known_pages]_vars

\* C13 happens: a directory found through a directory-style redirect has
\* been taken from new_resources and filed
C13_Witness ==
    /\ bpc = "control"
    /\ caller = "discovered"
    /\ found > 0
    /\ DirShaped(path)
    /\ In(path, known_dirs)
    /\ ~In(path, known_pages)

\* the control probe fails in this step
ControlFails == bpc = "control" /\ bpc' # "control" /\ response'.error

\* the candidate probes that fail in this step
Failing == {t \in Answered : t.answer.error}

\* C14: a failed control probe and a failed candidate probe each add one
\* to network_errors and nothing to new_resources, no other step (the
\* reaping of the task included) changes network_errors, a failed control
\* probe sends test_directory back to its caller, and a task is only ever
\* created for the candidate just taken, never for an earlier one again.
C14_FailureCountedOnce ==
    [][/\ ControlFails
            => /\ network_errors' = network_errors + 1
               /\ new_resources' = new_resources
               /\ bpc' = caller
       /\ Failing # {}
            => /\ network_errors' = network_errors + Cardinality(Failing)
               /\ new_resources' = new_resources
               /\ bpc' = "wait"
       /\ (~ControlFails /\ Failing = {}) => network_errors' = network_errors
       /\ \A t \in tasks' :
            t.id \notin TaskIds(tasks)
            => t.id = payload_iterator' /\ payload_iterator' = payload_iterator + 1]_vars

\* C14 happens: in the first directory a candidate probe has failed and its
\* task has been reaped
C14_Witness ==
    /\ bpc = "admit"
    /\ caller = "dirs"
    /\ dir_index = 2
    /\ payload_iterator > 0
    /\ tasks = {}
    /\ network_errors = 1
    /\ ~stop_event

\* a is the beginning of b
IsPrefix(a, b) == Len(a) <= Len(b) /\ SubSeq(b, 1, Len(a)) = a

\* the step takes the oldest entry of new_resources and files it: a path
\* ending in "/" in known_dirs, with test_directory called on it, any other
\* in known_pages
C15_TakesOldest ==
    /\ new_resources # <<>>
    /\ new_resources' = Tail(new_resources)
    /\ IF DirShaped(Head(new_resources))
       THEN /\ known_dirs' = Append(known_dirs, Head(new_resources))
            /\ known_pages' = known_pages
            /\ bpc' = "control"
            /\ path' = Head(new_resources)
       ELSE /\ known_pages' = Append(known_pages, Head(new_resources))
            /\ known_dirs' = known_dirs

\* C15: new_resources changes only by an append at its end or by the
\* oldest entry being taken and filed (in known_dirs and explored when it
\* ends in "/", in known_pages otherwise), known_dirs and known_pages never
\* lose an entry, and when attack() returns from a probing run with the
\* stop signal unset new_resources is empty and the two lists hold one
\* entry more per discovery than after the seeding.
C15_WorklistDrained ==
    /\ []((bpc = "returned" /\ do_get /\ ~stop_event)
            => /\ new_resources = <<>>
               /\ Len(known_dirs) + Len(known_pages)
                    = Len(Seed(links, <<>>, <<>>).known_dirs)
                      + Len(Seed(links, <<>>, <<>>).known_pages) + found)
    /\ [][/\ IsPrefix(known_dirs, known_dirs')
          /\ IsPrefix(known_pages, known_pages')
          /\ new_resources' # new_resources
               => \/ /\ IsPrefix(new_resources, new_resources')
                     /\ known_dirs' = known_dirs
                     /\ known_pages' = known_pages
                  \/ C15_TakesOldest]_vars

\* C15 happens: a run that discovered a page and a directory has returned
\* with the stop signal unset
C15_Witness ==
    /\ bpc = "returned"
    /\ do_get
    /\ ~stop_event
    /\ found = 2
    /\ Len(known_dirs) > Len(Seed(links, <<>>, <<>>).known_dirs)
    /\ Len(known_pages) > Len(Seed(links, <<>>, <<>>).known_pages)

\* C16: outside test_directory's probing loop no task is in flight, every
\* task in flight probes a candidate under the directory being explored,
\* and new_resources only grows while that loop waits, by the answer to
\* one of those tasks.
C16_OneDirectoryAtATime ==
    /\ [](/\ bpc \notin {"admit", "wait"} => tasks = {}
          /\ \A t \in tasks : t.url = path \o payloads[t.id])
    /\ [][Len(new_resources') > Len(new_resources)
            => /\ bpc = "wait"
               /\ path' = path
               /\ Answered # {}]_vars

\* C16 happens: a discovered directory is explored after an earlier one,
\* with two probes in flight
C16_Witness ==
    /\ bpc = "wait"
    /\ caller = "discovered"
    /\ Cardinality(tasks) = 2
    /\ \A t \in tasks : t.url = path \o payloads[t.id]

\* C17: must_attack is true for every request in the state before attack()
\* is called and false for every request in every state from the call on,
\* and a call with do_get false returns at once, having sent no probe and
\* left known_dirs, known_pages and new_resources empty.
C17_AttackedOnce ==
    /\ bpc = "idle" => \A r \in Requests : must_attack(r)
    /\ bpc \notin {"idle", "unused"} => \A r \in Requests : ~must_attack(r)
    /\ (bpc # "idle" /\ ~do_get)
         => /\ bpc = "returned"
            /\ known_dirs = <<>> /\ known_pages = <<>> /\ new_resources = <<>>
            /\ probed = <<>> /\ tasks = {}
            /\ network_errors = 0 /\ response = NoResponse

\* C17 happens: attack() has returned at once because do_get is false
C17_Witness ==
    /\ bpc = "returned"
    /\ ~do_get
    /\ links # <<>>
    /\ \A r \in Requests : ~must_attack(r)

\* ------------------------------------- further claims on the Mutator

C19_QueryStringCandidate(y) ==
    /\ y.call = calls
    /\ y.param_name = <<"QUERY_STRING">>
    /\ y.evil_req.path = request.path \o <<"?">> \o quote(y.payload)

\* C19: a query-string candidate is yielded by a mutate() call only if the
\* request's method is GET, the request has no query parameter and the
\* Mutator was built with qs_inject true.
C19_QueryStringOnlyWhenEnabled ==
    \A y \in Yielded :
        C19_QueryStringCandidate(y)
        => /\ request.method = "GET"
           /\ request.get_params = <<>>
           /\ args.qs_inject

\* C19 happens: a query-string candidate has been yielded in a second
\* call, after a call for a request with query parameters gave none
C19_Witness ==
    /\ pc = "qs_yielded"
    /\ calls = 2
    /\ C19_QueryStringCandidate(yielded[Len(yielded)])
    /\ \E y \in Yielded : y.call = 1 /\ y.slot = 1
    /\ \A y \in Yielded : y.call = 1 => y.slot # 4

\* C20: the Mutator that get_mutator() builds has query-string injection
\* enabled exactly when the attack level is at least 2.
C20_QueryStringFromLevelTwo ==
    args = get_mutator(TRUE, TRUE, PayloadSources.plain, options)
    => (mutator.qs_inject <=> attack_level(options) >= 2)

\* the flags the model's payload sources supply
SourceFlags == {DefaultFlags, TimeFlags}

\* C21: the flags of a candidate have the method of the attacked slot (get
\* for a query parameter and for the query string, post for a body
\* parameter, file for an upload parameter) and the other four fields of
\* the flags the payload source supplied, which the source still holds
\* unchanged; with_method and with_section replace one field only.
C21_FlagsOfTheSlot ==
    /\ \A y \in Yielded :
         /\ y.flags.method = (CASE y.slot \in {1, 4} -> "get"
                                [] y.slot = 2 -> "post"
                                [] y.slot = 3 -> "file")
         /\ y.flags.payload_type = y.source.flags.payload_type
         /\ y.flags.section = y.source.flags.section
         /\ y.flags.platform = y.source.flags.platform
         /\ y.flags.dbms = y.source.flags.dbms
         /\ \E n \in 1..Len(args.payloads.items) : args.payloads.items[n] = y.source
    /\ \A f \in SourceFlags :
         /\ \A m \in PayloadType : with_method(f, m) = [f EXCEPT !.method = m]
         /\ \A sec \in {"", "sql"} : with_section(f, sec) = [f EXCEPT !.section = sec]

\* C21 happens: an upload parameter was attacked with a payload whose
\* flags are not the default ones
C21_Witness ==
    \E y \in Yielded :
        /\ y.slot = 3
        /\ y.flags.method = "file"
        /\ y.source.flags = TimeFlags

\* -------------------------------------------------------- FileMutator

\* FileMutator.__init__: the fixed noise names are not added to the skip set
FileMutator(source, parameters, skip) ==
    [payloads |-> source,
     parameters |-> IF parameters.kind = "list" THEN parameters.items ELSE {},
     skip_list |-> IF skip.kind = "set" THEN skip.items ELSE {}]

\* payload.encode(errors="replace"): the payloads of the model are ASCII
\* text, whose bytes are the same characters
encode(payload) == payload

\* the value FileMutator installs in the attacked upload parameter
Wrapped(payload) == << <<"content.xml">>, encode(payload), <<"text/xml">> >>

\* the constructor arguments of the FileMutators the model draws from
FileMutatorArgs ==
    { Args(<<>>, PayloadSources.plain, FALSE, NoNames, NoNames),
      Args(<<>>, PayloadSources.context, FALSE, NoNames, NoNames),
      Args(<<>>, PayloadSources.single, FALSE, NoNames, NoNames),
      Args(<<>>, PayloadSources.function, FALSE, NoNames, NoNames),
      Args(<<>>, PayloadSources.generator, FALSE, NoNames, NoNames),
      Args(<<>>, PayloadSources.none, FALSE, NoNames, NoNames),
      Args(<<>>, PayloadSources.plain, FALSE, NameList({<<"v">>}), NoNames),
      Args(<<>>, PayloadSources.plain, FALSE, NameSet({<<"v">>}), NoNames),
      Args(<<>>, PayloadSources.plain, FALSE, NoNames, NameSet({<<"w">>})),
      Args(<<>>, PayloadSources.plain, FALSE, NoNames, NameList({<<"w">>})),
      Args(<<>>, PayloadSources.plain, FALSE, NoNames, NameSet({<<"JSESSIONID">>})) }

Upload(name) == << name, <<"c">>, <<"x">> >>

\* the requests handed to FileMutator.mutate()
FileRequests ==
    { InRequest(<<"/", "f", ".", "x">>, "POST", <<>>, <<>>,
                << Param(<<"v">>, Upload(<<"b", ".", "c">>)),
                   Param(<<"w">>, Upload(<<"d">>)) >>,
                <<7>>, <<"f", ".", "x">>),
      InRequest(<<"/">>, "POST", <<>>, <<>>,
                << Param(<<"v">>, Upload(<<"b">>)), Param(<<"v">>, Upload(<<"d">>)) >>,
                <<>>, <<>>),
      InRequest(<<"/", "a">>, "POST",
                << Param(<<"v">>, <<"a">>) >>, << Param(<<"w">>, <<"b">>) >>,
                << Param(<<"JSESSIONID">>, Upload(<<"b">>)),
                   Param(<<"w">>, Upload(<<"d">>)) >>,
                <<>>, <<"a">>),
      InRequest(<<"/", "a">>, "GET",
                << Param(<<"v">>, <<"a">>) >>, <<>>, <<>>, <<>>, <<"a">>) }

\* the filters with a lookup of the names already attacked added to them
FileSkipped_SeenBefore(param_name) ==
    \/ mutator.skip_list # {} /\ param_name \in mutator.skip_list
    \/ mutator.parameters # {} /\ param_name \notin mutator.parameters
    \/ \E n \in 1..Len(yielded) : yielded[n].name = param_name /\ yielded[n].i # i

\* the filters on an upload parameter's name, which is not quoted here
FileSkipped(param_name) ==
    \/ mutator.skip_list # {} /\ param_name \in mutator.skip_list
    \/ mutator.parameters # {} /\ param_name \notin mutator.parameters

\* new_params = request.file_params: the list already worked on, or a copy
\* of the request's list when the property gives copies
new_params == IF copies THEN request.file_params ELSE file_params

\* the payload loop's body of FileMutator.mutate: [skip, payload]
RenderFile(payload, r, param_name) ==
    IF NeedsFileName(payload, r) THEN [skip |-> TRUE, payload |-> payload]
    ELSE [skip |-> FALSE, payload |-> RenderContext(payload, r, hexlify(param_name))]

\* a consumer calls file_mutator.mutate(r)
FileMutate(r) ==
    /\ pc \in {"f_idle", "f_done"}
    /\ calls < MaxCalls
    /\ calls' = calls + 1
    /\ request' = r
    /\ get_params' = r.get_params
    /\ post_params' = r.post_params
    /\ file_params' = r.file_params
    /\ i' = 1
    /\ pc' = "f_param"
    /\ UNCHANGED <<bvars, ovars, args, mutator, attack_hashes, consumed, slot, saved_value,
                   payload_iter, yielded>>

\* the upload parameter is filtered out by the skip set or the allowlist
FileSkipParameter ==
    /\ pc = "f_param"
    /\ i <= Len(request.file_params)
    /\ FileSkipped(new_params[i].name)
    /\ file_params' = new_params
    /\ i' = i + 1
    /\ UNCHANGED <<bvars, ovars, args, mutator, attack_hashes, consumed, request, get_params,
                   post_params, pc, slot, saved_value, payload_iter, yielded, calls>>

\* the payload loop is entered for the upload parameter
FileParameter ==
    /\ pc = "f_param"
    /\ i <= Len(request.file_params)
    /\ ~FileSkipped(new_params[i].name)
    /\ file_params' = new_params
    /\ payload_iter' = iter_payloads(mutator.payloads, consumed)
    /\ pc' = "f_payload"
    /\ UNCHANGED <<bvars, ovars, args, mutator, attack_hashes, consumed, request, get_params,
                   post_params, slot, i, saved_value, yielded, calls>>

\* a payload is skipped for a missing file name
FileSkipPayload ==
    /\ pc = "f_payload"
    /\ payload_iter # <<>>
    /\ RenderFile(Head(payload_iter).payload, request, file_params[i].name).skip
    /\ payload_iter' = Tail(payload_iter)
    /\ consumed' = Take
    /\ UNCHANGED <<bvars, ovars, args, mutator, attack_hashes, request, get_params, post_params,
                   file_params, pc, slot, i, saved_value, yielded, calls>>

\* the next payload is rendered and installed, the request built and yielded
FileYield ==
    /\ pc = "f_payload"
    /\ payload_iter # <<>>
    /\ LET param_name == file_params[i].name
           r == RenderFile(Head(payload_iter).payload, request, param_name)
           new == SetValue(file_params, i, Wrapped(r.payload))
       IN /\ ~r.skip
          /\ file_params' = new
          /\ yielded' = Append(yielded,
                 [call |-> calls, slot |-> 3, i |-> i,
                  source |-> Head(payload_iter),
                  name |-> param_name,
                  evil_req |-> Request(request.path, request.method, get_params,
                                       post_params, new, request.referer,
                                       request.link_depth),
                  param_name |-> param_name,
                  payload |-> r.payload,
                  flags |-> with_method(Head(payload_iter).flags, "file")])
    /\ payload_iter' = Tail(payload_iter)
    /\ consumed' = Take
    /\ pc' = "f_yielded"
    /\ UNCHANGED <<bvars, ovars, args, mutator, attack_hashes, request, get_params, post_params,
                   slot, i, saved_value, calls>>

\* the consumer asks for the next tuple
FileResume ==
    /\ pc = "f_yielded"
    /\ pc' = "f_payload"
    /\ UNCHANGED <<bvars, ovars, args, mutator, attack_hashes, consumed, request, get_params,
                   post_params, file_params, slot, i, saved_value, payload_iter, yielded, calls>>

\* the payload source is exhausted for this upload parameter
FilePayloadsDone ==
    /\ pc = "f_payload"
    /\ payload_iter = <<>>
    /\ i' = i + 1
    /\ pc' = "f_param"
    /\ UNCHANGED <<bvars, ovars, args, mutator, attack_hashes, consumed, request, get_params,
                   post_params, file_params, slot, saved_value, payload_iter, yielded, calls>>

\* range(len(request.file_params)) is exhausted
FileDone ==
    /\ pc = "f_param"
    /\ i > Len(request.file_params)
    /\ pc' = "f_done"
    /\ UNCHANGED <<bvars, ovars, args, mutator, attack_hashes, consumed, request, get_params,
                   post_params, file_params, slot, i, saved_value, payload_iter, yielded, calls>>

FileInit ==
    /\ args \in FileMutatorArgs
    /\ mutator = FileMutator(args.payloads, args.parameters, args.skip)
    /\ attack_hashes = {}
    /\ consumed = 0
    /\ request = NoRequest
    /\ get_params = <<>>
    /\ post_params = <<>>
    /\ file_params = <<>>
    /\ pc = "f_idle"
    /\ slot = 3
    /\ i = 1
    /\ saved_value = <<>>
    /\ payload_iter = <<>>
    /\ yielded = <<>>
    /\ calls = 0
    /\ options = [tasks |-> 0]
    /\ BusterIdle
    /\ payload_file = NoFile
    /\ copies \in BOOLEAN
    /\ compared = <<>>
    /\ outcome = "none"

FileNext ==
    \/ \E r \in FileRequests : FileMutate(r)
    \/ FileSkipParameter
    \/ FileParameter
    \/ FileSkipPayload
    \/ FileYield
    \/ FileResume
    \/ FilePayloadsDone
    \/ FileDone

FileSpec == FileInit /\ [][FileNext]_vars

\* ------------------------------------------- claims on the FileMutator

\* the case of C22: an allowlist given as a list or not at all, a blocklist
\* given as a set or not at all, a payload source that can be read again,
\* the returned sequence consumed to its end
C22_Case ==
    /\ pc = "f_done"
    /\ args.parameters.kind \in {"none", "list"}
    /\ args.skip.kind \in {"none", "set"}
    /\ args.payloads.kind # "generator"

\* the payloads of the source whose file-name context the request meets
RECURSIVE C22_Usable(_, _)
C22_Usable(items, r) ==
    IF items = <<>> THEN <<>>
    ELSE (IF (Contains(Head(items).payload, "[FILE_NAME]")
              \/ Contains(Head(items).payload, "[FILE_NOEXT]"))
             /\ r.file_name = <<>>
          THEN <<>> ELSE <<Head(items)>>)
         \o C22_Usable(Tail(items), r)

\* <<position, source pair>> per upload parameter passing the lists and
\* usable payload, from position n on
RECURSIVE C22_PerUpload(_, _, _)
C22_PerUpload(r, items, n) ==
    IF n > Len(r.file_params) THEN <<>>
    ELSE (IF r.file_params[n].name \notin args.skip.items
             /\ (args.parameters.kind = "list"
                   => r.file_params[n].name \in args.parameters.items)
          THEN [k \in 1..Len(C22_Usable(items, r)) |-> <<n, C22_Usable(items, r)[k]>>]
          ELSE <<>>)
         \o C22_PerUpload(r, items, n + 1)

ContainsSeq(s, pat) ==
    \E n \in 1..(Len(s) - Len(pat) + 1) : SubSeq(s, n, n + Len(pat) - 1) = pat

\* s.replace(pat, by): left to right, without overlap
RECURSIVE ReplaceSeq(_, _, _)
ReplaceSeq(s, pat, by) ==
    IF Len(s) < Len(pat) THEN s
    ELSE IF SubSeq(s, 1, Len(pat)) = pat
    THEN by \o ReplaceSeq(SubSeq(s, Len(pat) + 1, Len(s)), pat, by)
    ELSE <<Head(s)>> \o ReplaceSeq(Tail(s), pat, by)

\* s.strip(" \n")
RECURSIVE lstrip(_)
lstrip(s) == IF s # <<>> /\ Head(s) \in {" ", "<lf>"} THEN lstrip(Tail(s)) ELSE s
RECURSIVE rstrip(_)
rstrip(s) ==
    IF s # <<>> /\ s[Len(s)] \in {" ", "<lf>"} THEN rstrip(SubSeq(s, 1, Len(s) - 1)) ELSE s
strip(s) == rstrip(lstrip(s))

\* the tokens process_line looks for
TAB == <<"[", "T", "A", "B", "]">>
LF == <<"[", "L", "F", "]">>
FF == <<"[", "F", "F", "]">>
TIME == <<"[", "T", "I", "M", "E", "]">>
EXTERNAL_ENDPOINT == <<"[", "EXTERNAL_ENDPOINT", "]">>
TIMEOUT == <<"[", "T", "I", "M", "E", "O", "U", "T", "]">>

\* int(ceil(timeout)) of a timeout given in tenths of a second
ceil(tenths) == (tenths + 9) \div 10

\* PayloadReader.__init__: [timeout, endpoint_url]
PayloadReader(opts) ==
    [timeout |-> opts.timeout,
     endpoint_url |-> IF "external_endpoint" \in DOMAIN opts
                      THEN opts.external_endpoint ELSE <<"http://wapiti3.ovh/">>]

\* the substitutions of process_line up to the test for [TIMEOUT]
Substituted(reader, line) ==
    LET l0 == strip(line)
        l1 == ReplaceSeq(l0, TAB, <<"<tab>">>)
        l2 == ReplaceSeq(l1, LF, <<"<lf>">>)
        l3 == ReplaceSeq(l2, FF, <<"<ff>">>)
        l4 == ReplaceSeq(l3, TIME, str(ceil(reader.timeout) + 1))
    IN ReplaceSeq(l4, EXTERNAL_ENDPOINT, reader.endpoint_url)

\* process_line with [TIMEOUT] looked for before [TIME] is substituted and
\* by its first five characters
process_line_TimeFirst(reader, line) ==
    LET l0 == strip(line)
        prefix == <<"[", "T", "I", "M", "E">>
        text == IF ContainsSeq(l0, prefix)
                THEN ReplaceSeq(l0, prefix, <<>>) ELSE Substituted(reader, line)
    IN [payload |-> ReplaceSeq(text, <<"\\", "0">>, <<"<nul>">>),
        flags |-> Flags(IF ContainsSeq(l0, prefix) THEN "time" ELSE "pattern",
                        "", "get", "all", "all")]

\* PayloadReader.process_line(line): [payload, flags]
process_line(reader, line) ==
    LET l5 == Substituted(reader, line)
        timed == ContainsSeq(l5, TIMEOUT)
        l6 == IF timed THEN ReplaceSeq(l5, TIMEOUT, <<>>) ELSE l5
    IN [payload |-> ReplaceSeq(l6, <<"\\", "0">>, <<"<nul>">>),
        flags |-> Flags(IF timed THEN "time" ELSE "pattern", "", "get", "all", "all")]

\* the loop of read_payloads over the lines of an open file
RECURSIVE read_lines(_, _)
read_lines(reader, lines) ==
    IF lines = <<>> THEN <<>>
    ELSE (IF process_line(reader, Head(lines)).payload # <<>>
          THEN <<process_line(reader, Head(lines))>> ELSE <<>>)
         \o read_lines(reader, Tail(lines))

\* read_payloads keeping the lines that are empty after processing
read_payloads_KeepsEmpty(reader, file) ==
    IF ~file.readable THEN <<>>
    ELSE [n \in 1..Len(file.lines) |-> process_line(reader, file.lines[n])]

\* PayloadReader.read_payloads(filename): open() raises IOError for a file
\* that is not readable, and the empty list is returned
read_payloads(reader, file) ==
    IF ~file.readable THEN <<>> ELSE read_lines(reader, file.lines)

\* a line as the file iterator gives it
Line(text) == text \o <<"<lf>">>

File(lines) == [readable |-> TRUE, lines |-> lines]

\* the payload files the model draws from; the first cannot be opened
PayloadFiles ==
    { [readable |-> FALSE, lines |-> <<>>],
      File(<< Line(<<"INJECT">>),
              Line(<<" ", "ATTACK">> \o TIMEOUT \o <<" ">>),
              Line(<<"admin'">> \o TIMEOUT \o <<" ", "OR", " ", "1", "=", "1">>) >>),
      File(<< Line(TIME \o <<"x">> \o TIMEOUT), Line(TIMEOUT), Line(<<>>), Line(TIME) >>),
      File(<< Line(<<"a">> \o TAB \o <<"b">>), Line(LF), Line(<<"\\", "0">> \o FF) >>),
      File(<< Line(EXTERNAL_ENDPOINT), Line(<<"[FILE_NAME]">>), Line(<<"[VALUE]">>),
              Line(<<"[EXTVALUE]">>) >>),
      File(<< Line(<<"[", "T", "I", "M">> \o TIMEOUT \o <<"E", "]">>),
              Line(<<"x", "\\", "0">> \o TIMEOUT) >>) }

\* the attack options of the modules that read a payload file: a timeout of
\* 5 s and the default level, a timeout of 5.5 s and level 2
ReaderOptions ==
    { [tasks |-> 0, timeout |-> 50],
      [tasks |-> 0, timeout |-> 55, level |-> 2] }

\* Attack.payloads: the payload file is read at each access
payloads_property(opts, file) ==
    [kind |-> "list", items |-> read_payloads(PayloadReader(opts), file)]

\* a module calls get_mutator(), which reads the payload file
GetMutator ==
    /\ pc = "r_idle"
    /\ args' = get_mutator(TRUE, TRUE, payloads_property(options, payload_file), options)
    /\ mutator' = Mutator(args'.methods, args'.payloads, args'.qs_inject,
                          args'.parameters, args'.skip)
    /\ pc' = "idle"
    /\ UNCHANGED <<bvars, ovars, attack_hashes, consumed, request, get_params, post_params,
                   file_params, slot, i, saved_value, payload_iter, yielded, calls>>

ReaderInit ==
    /\ options \in ReaderOptions
    /\ payload_file \in PayloadFiles
    /\ args = Args(<<>>, PayloadSources.none, FALSE, NoNames, NoNames)
    /\ mutator = Mutator(args.methods, args.payloads, args.qs_inject,
                         args.parameters, args.skip)
    /\ attack_hashes = {}
    /\ consumed = 0
    /\ request = NoRequest
    /\ get_params = <<>>
    /\ post_params = <<>>
    /\ file_params = <<>>
    /\ pc = "r_idle"
    /\ slot = 1
    /\ i = 1
    /\ saved_value = <<>>
    /\ payload_iter = <<>>
    /\ yielded = <<>>
    /\ calls = 0
    /\ BusterIdle
    /\ copies = FALSE
    /\ compared = <<>>
    /\ outcome = "none"

\* the requests the module hands to the mutator it got
ReaderRequests ==
    { r \in Requests : r.path = <<"/">> \/ r.path_id = <<7>> \/ r.file_params # <<>> }

ReaderNext ==
    \/ GetMutator
    \/ \E r \in ReaderRequests : Mutate(r)
    \/ NextCollection
    \/ SkipParameter
    \/ Pattern
    \/ SkipPayload
    \/ Yield
    \/ Resume
    \/ Abandon
    \/ PayloadsDone
    \/ Restore
    \/ QueryString
    \/ QueryStringSkipPayload
    \/ QueryStringYield
    \/ QueryStringDone

ReaderSpec == ReaderInit /\ [][ReaderNext]_vars

\* ------------------------------------------------------------- C23

\* (the file and the options do not change in a run: the lines are looked
\* at where the file is read, a candidate where it is yielded)

\* the line without its surrounding blanks and line end, after the
\* substitutions of [TAB], [LF], [FF], [TIME] and [EXTERNAL_ENDPOINT], in
\* that order, for a timeout given in tenths of a second
C23_AfterSubstitutions(line, tenths, endpoint) ==
    LET seconds == IF tenths % 10 = 0 THEN tenths \div 10 ELSE tenths \div 10 + 1
        a == ReplaceSeq(strip(line), <<"[", "T", "A", "B", "]">>, <<"<tab>">>)
        b == ReplaceSeq(a, <<"[", "L", "F", "]">>, <<"<lf>">>)
        c == ReplaceSeq(b, <<"[", "F", "F", "]">>, <<"<ff>">>)
        d == ReplaceSeq(c, <<"[", "T", "I", "M", "E", "]">>, str(seconds + 1))
    IN ReplaceSeq(d, <<"[", "EXTERNAL_ENDPOINT", "]">>, endpoint)

C23_Token == <<"[", "T", "I", "M", "E", "O", "U", "T", "]">>

\* the type is time exactly for a line with the token, and [TIME] alone
\* never gives it
C23_TypeOfLine(line) ==
    LET reader == PayloadReader(options)
        sub == C23_AfterSubstitutions(line, options.timeout, <<"http://wapiti3.ovh/">>)
        out == process_line(reader, line)
    IN /\ out.flags = Flags(IF ContainsSeq(sub, C23_Token) THEN "time" ELSE "pattern",
                            "", "get", "all", "all")
       /\ ContainsSeq(sub, C23_Token) <=> ContainsSeq(line, C23_Token)

\* C23 as stated: process_line returns payload_type time exactly when the
\* line, after the substitutions of [TAB], [LF], [FF], [TIME] and
\* [EXTERNAL_ENDPOINT] in that order, contains [TIMEOUT], and pattern
\* otherwise; for a time line the returned text is the substituted line with
\* the [TIMEOUT] token stripped; [TIME] is never taken for [TIMEOUT].
C23_TimeoutStripped ==
    pc \in {"r_idle", "idle"} => \A n \in DOMAIN payload_file.lines :
        LET line == payload_file.lines[n]
            sub == C23_AfterSubstitutions(line, options.timeout, <<"http://wapiti3.ovh/">>)
            out == process_line(PayloadReader(options), line)
        IN /\ C23_TypeOfLine(line)
           /\ ContainsSeq(sub, C23_Token) =>
                  out.payload = ReplaceSeq(sub, C23_Token, <<>>)

\* C23 amended: as C23, with the returned text of a time line being the
\* substituted line with the [TIMEOUT] token stripped and every backslash
\* followed by 0 then turned into the NUL character; a candidate made from
\* the entry carries the type of its line.
C23_TimeoutStrippedThenNul ==
    /\ pc \in {"r_idle", "idle"} => \A n \in DOMAIN payload_file.lines :
        LET line == payload_file.lines[n]
            sub == C23_AfterSubstitutions(line, options.timeout, <<"http://wapiti3.ovh/">>)
            out == process_line(PayloadReader(options), line)
        IN /\ C23_TypeOfLine(line)
           /\ out.payload =
                  ReplaceSeq(IF ContainsSeq(sub, C23_Token)
                             THEN ReplaceSeq(sub, C23_Token, <<>>) ELSE sub,
                             <<"\\", "0">>, <<"<nul>">>)
    /\ pc = "yielded" =>
        \E m \in DOMAIN payload_file.lines :
            /\ yielded[Len(yielded)].source
                   = process_line(PayloadReader(options), payload_file.lines[m])
            /\ yielded[Len(yielded)].flags.payload_type =
                   IF ContainsSeq(payload_file.lines[m], C23_Token) THEN "time" ELSE "pattern"

\* the line admin'[TIMEOUT] OR 1=1 read with a timeout of 5 s has given a
\* candidate of type time with the payload admin' OR 1=1
C23_Witness ==
    /\ options.timeout = 50
    /\ \E n \in DOMAIN yielded :
        /\ yielded[n].source.payload = <<"admin'", " ", "OR", " ", "1", "=", "1">>
        /\ yielded[n].flags.payload_type = "time"
    /\ \E n \in DOMAIN payload_file.lines :
        payload_file.lines[n] =
            <<"admin'", "[", "T", "I", "M", "E", "O", "U", "T", "]",
              " ", "OR", " ", "1", "=", "1", "<lf>">>

\* ------------------------------------------------------------- C24

\* the processed lines that are not empty, in the order of the file
C24_Kept(reader, lines) ==
    SelectSeq([n \in 1..Len(lines) |-> process_line(reader, lines[n])],
              LAMBDA entry : entry.payload # <<>>)

\* C24: read_payloads on a file that cannot be opened returns the empty
\* list without an error, and a Mutator fed with it yields no candidate for
\* any request; on a readable file the entries keep the order of the file
\* and none has an empty text.
C24_UnreadableGivesNothing ==
    /\ pc = "idle" =>
           /\ args.payloads.items = read_payloads(PayloadReader(options), payload_file)
           /\ payload_file.readable =>
                  args.payloads.items = C24_Kept(PayloadReader(options), payload_file.lines)
    /\ pc # "r_idle" =>
           /\ \A n \in DOMAIN args.payloads.items : args.payloads.items[n].payload # <<>>
           /\ ~payload_file.readable => args.payloads.items = <<>> /\ yielded = <<>>

\* a request with parameters has been mutated to the end with the payloads
\* of an unreadable file
C24_Witness ==
    /\ ~payload_file.readable
    /\ pc = "done"
    /\ calls = MaxCalls
    /\ request.get_params # <<>>
    /\ yielded = <<>>

\* a file with a line that is empty after processing has been read
C24_WitnessDropped ==
    /\ payload_file.readable
    /\ pc = "done"
    /\ Len(args.payloads.items) < Len(payload_file.lines)
    /\ yielded # <<>>

\* ------------------------------------------------------------- Flags.__eq__

\* a Python value with its class
Object(class, value) == [class |-> class, value |-> value]

isinstance(object, class) == object.class = class

\* equality that answers False for a value of another class
Flags_eq_FalseForOtherClasses(self, other) ==
    IF /\ isinstance(other, "Flags")
       /\ self.payload_type = other.value.payload_type
       /\ self.section = other.value.section
       /\ self.method = other.value.method
       /\ self.platform = other.value.platform
       /\ self.dbms = other.value.dbms
    THEN "True" ELSE "False"

\* Flags.__eq__(self, other): "True", "False", or the exception raised
__eq__(self, other) ==
    IF ~isinstance(other, "Flags") THEN "ValueError"
    ELSE IF /\ self.payload_type = other.value.payload_type
            /\ self.section = other.value.section
            /\ self.method = other.value.method
            /\ self.platform = other.value.platform
            /\ self.dbms = other.value.dbms
         THEN "True" ELSE "False"

Sections == {"", "sql"}

FlagValues ==
    { Flags(t, s, m, p, d) : t \in {"pattern", "time"}, s \in Sections,
                             m \in {"get", "post"}, p \in {"all", "linux"},
                             d \in {"all", "mysql"} }

\* the Flags objects as the payload sources make them: no section, method get
InitialFlagValues == { f \in FlagValues : f.section = "" /\ f.method = "get" }

\* values that are not Flags objects; the dict has the five keys of a
\* default Flags object
OtherValues ==
    { Object("NoneType", [repr |-> <<"None">>]), Object("str", [repr |-> <<"pattern">>]),
      Object("dict", DefaultFlags) }

\* f == other is evaluated
Compare ==
    /\ outcome = "none"
    /\ outcome' = __eq__(compared[1], compared[2])
    /\ UNCHANGED <<mvars, bvars, payload_file, copies, compared>>

\* both operands, two Flags objects, are replaced by their with_section(s)
WithSection(s) ==
    /\ isinstance(compared[2], "Flags")
    /\ compared' = << with_section(compared[1], s),
                      Object("Flags", with_section(compared[2].value, s)) >>
    /\ outcome' = "none"
    /\ UNCHANGED <<mvars, bvars, payload_file, copies>>

\* the right operand becomes the with_section(s) of the left one
WithSectionOfSelf(s) ==
    /\ compared' = << compared[1], Object("Flags", with_section(compared[1], s)) >>
    /\ outcome' = "none"
    /\ UNCHANGED <<mvars, bvars, payload_file, copies>>

\* the left operand is replaced by its with_method(m)
WithMethod(m) ==
    /\ compared' = << with_method(compared[1], m), compared[2] >>
    /\ outcome' = "none"
    /\ UNCHANGED <<mvars, bvars, payload_file, copies>>

FlagsInit ==
    /\ compared \in InitialFlagValues
                       \X ({Object("Flags", f) : f \in InitialFlagValues} \cup OtherValues)
    /\ outcome = "none"
    /\ payload_file = NoFile
    /\ copies = FALSE
    /\ options = [tasks |-> 0]
    /\ MutatorIdle
    /\ BusterIdle

FlagsNext ==
    \/ Compare
    \/ \E s \in Sections : WithSection(s)
    \/ \E s \in Sections : WithSectionOfSelf(s)
    \/ \E m \in {"get", "post"} : WithMethod(m)

FlagsSpec == FlagsInit /\ [][FlagsNext]_vars

\* ------------------------------------------------------------- C25

C25_Fields == {"payload_type", "section", "method", "platform", "dbms"}

\* C25: two Flags values compare equal exactly when all five fields are
\* equal, so f.with_section(s) equals g.with_section(s) for equal f and g,
\* and f differs from f.with_section(s) when s is not the section of f;
\* comparing a Flags value with a value of another type is a ValueError,
\* never False.
C25_FieldWiseOrValueError ==
    LET f == compared[1]
        other == compared[2]
    IN /\ outcome # "none" =>
              outcome = IF other.class # "Flags" THEN "ValueError"
                        ELSE IF \A k \in C25_Fields : f[k] = other.value[k]
                        THEN "True" ELSE "False"
       /\ \A s \in Sections :
              /\ (other.class = "Flags" /\ __eq__(f, other) = "True") =>
                     __eq__(with_section(f, s),
                            Object("Flags", with_section(other.value, s))) = "True"
              /\ s # f.section =>
                     __eq__(f, Object("Flags", with_section(f, s))) = "False"
              /\ __eq__(with_section(f, s), other) # "False" \/ other.class = "Flags"

\* a Flags object has been compared with a dict of the same five entries
C25_Witness ==
    /\ outcome = "ValueError"
    /\ compared[2].class = "dict"
    /\ \A k \in C25_Fields : compared[1][k] = compared[2].value[k]

\* two Flags objects that differ in the dbms only compared unequal, and
\* two with_section results of equal objects compared equal
C25_WitnessFields ==
    /\ outcome = "False"
    /\ compared[2].class = "Flags"
    /\ \A k \in C25_Fields \ {"dbms"} : compared[1][k] = compared[2].value[k]

\* ------------------------------------------------------------- C26

C26_Distinct(lst) == \A m, n \in 1..Len(lst) : lst[m] = lst[n] => m = n

\* C26: in every state of an attack() run no path appears more than once in
\* known_dirs nor in known_pages, whatever the crawled paths, the candidates
\* and the server's answers are.
C26_KnownPathsAreSets ==
    /\ C26_Distinct(known_dirs)
    /\ C26_Distinct(known_pages)

\* ------------------------------------------------------------- C30

\* a probe is admitted only for a URL that is in none of the three lists
C30_AdmitsUnknownOnly ==
    [][\A t \in tasks' \ tasks :
           ~t.done => ~In(t.url, known_dirs) /\ ~In(t.url, known_pages)
                      /\ ~In(t.url, new_resources)]_vars

\* C30: test_directory never admits a probe for a URL that is known or
\* queued at the moment of admission, and new_resources never holds the
\* same path twice nor a path that is in known_dirs or known_pages, for
\* every candidate sequence and every interleaving of completing probes.
C30_QueueHoldsNewPathsOnce ==
    /\ \A m, n \in 1..Len(new_resources) : new_resources[m] = new_resources[n] => m = n
    /\ \A n \in 1..Len(new_resources) :
           ~In(new_resources[n], known_dirs) /\ ~In(new_resources[n], known_pages)

\* ------------------------------------------------------------- C27

\* C27: once the sequence of FileMutator.mutate(request) is consumed to its
\* end, every entry of the upload collection it worked on has its value
\* from before the call, and in each candidate every upload parameter but
\* the attacked one carries its original value.
C27_UploadsRestored ==
    pc = "f_done" =>
        /\ file_params = request.file_params
        /\ \A n \in DOMAIN yielded :
               yielded[n].call = calls =>
                   \A k \in DOMAIN request.file_params :
                       k # yielded[n].i =>
                           yielded[n].evil_req.file_params[k] = request.file_params[k]

\* ------------------------------------------------------------- C28

\* the pattern of the parameter mutate() stands at, before its value is saved
C28_PatternReached ==
    LET new == SetValue(params_list, i, Marked(params_list[i].value))
    IN hash(Request(request.path, request.method, Collections(new).get_params,
                    Collections(new).post_params, Collections(new).file_params, <<>>, 0))

\* the pattern of the parameter whose payloads are being rendered
C28_PatternInWork ==
    LET new == SetValue(params_list, i, Marked(saved_value))
    IN hash(Request(request.path, request.method, Collections(new).get_params,
                    Collections(new).post_params, Collections(new).file_params, <<>>, 0))

\* C28: a pattern is added to the dedup set when its parameter is reached,
\* before any payload is rendered, and is never taken out again, whether
\* candidates follow or not; a parameter whose pattern is in the set gets
\* no payload rendered and no candidate, also when no candidate was ever
\* produced for that pattern.
C28_MarkedBeforeRendering ==
    /\ [](pc \in {"payload", "yielded"} => C28_PatternInWork \in attack_hashes)
    /\ [][attack_hashes \subseteq attack_hashes']_vars
    /\ [][(pc = "param" /\ pc' = "payload") =>
              /\ C28_PatternReached \notin attack_hashes
              /\ C28_PatternReached \in attack_hashes'
              /\ yielded' = yielded]_vars
    /\ [][(pc = "param" /\ pc' = "restore") =>
              C28_PatternReached \in attack_hashes /\ attack_hashes' = attack_hashes]_vars
    /\ [][yielded' # yielded => pc \in {"payload", "qs_payload"}]_vars

\* every payload of a parameter was skipped for the missing file name, and
\* in the next call the same parameter is passed over for its pattern, for
\* which no candidate exists
C28_Witness ==
    /\ pc = "restore"
    /\ calls = 2
    /\ C28_PatternInWork \in attack_hashes
    /\ yielded = <<>>
    /\ mutator.payloads.items # <<>>

\* ------------------------------------------------------------- C29

\* C29: once the stop signal is set during an attack() run, attack()
\* returns, also when the candidate probes in flight are never answered;
\* the reap cycle that follows the signal empties the set of tasks and the
\* probing loop is left at its next head, no directory is taken from
\* known_dirs or new_resources any more, and no control probe is sent.
C29_StopEndsTheRun ==
    /\ (stop_event /\ bpc \notin {"idle", "unused"}) ~> (bpc = "returned")
    /\ [][(stop_event /\ bpc # "idle") =>
              /\ (bpc = "wait" /\ bpc' # "wait") => (bpc' = "admit" /\ tasks' = {})
              /\ (bpc = "admit" /\ tasks = {}) => bpc' = caller
              /\ bpc # "control" => bpc' # "control"
              /\ dir_index' = dir_index
              /\ Len(new_resources') >= Len(new_resources)
              /\ known_dirs' = known_dirs]_vars

\* the signal was set while two probes were in flight and not answered,
\* and attack() has returned with a known directory left unexplored
C29_Witness ==
    /\ stop_event
    /\ bpc = "returned"
    /\ pending_count = 2
    /\ dir_index <= Len(known_dirs)

====
